---- MODULE Spec2Model ----
(***************************************************************************)
(* git-wmem: the commit pipeline (CommitWmem -> initRepos -> commitAll).    *)
(* Two configured workdirs, each a Git repository with a small filesystem   *)
(* (a root file "a", a subdirectory "d" holding a file "b"), one bare store *)
(* per workdir and the meta-repository.  Time is counted in seconds.        *)
(*                                                                         *)
(* Specifications: Spec, DirtySpec, TrackedSpec and MergedSpec run the      *)
(* pipeline from different starting points (fresh, an uncommitted change,   *)
(* after a successful invocation, a merge in the history); LiveSpec runs it *)
(* with the critical sections of the shared cache and fairness; ConfigSpec  *)
(* is the configuration side with paths spelled out; TreeSpec and ModeSpec  *)
(* are the tree builders on one workdir.                                    *)
(***************************************************************************)
EXTENDS Integers, Sequences, FiniteSets, TLC

\* ------------------------------------------------------------------ bounds
MaxInvocations == 2
MaxUserOps == 2
MaxTicks == 1

\* ------------------------------------------------------- program constants
\* hasFilesNewerThan: "since.Add(-1 * time.Second)"
ToleranceSeconds == 1
\* hasFilesDeletedUsingDirectoryMtime: "time.Now().Add(-1 * time.Hour)"
OneHourSeconds == 3600

\* ------------------------------------------------------------ input domains
\* md/commit-workdir-paths, in configuration order: "../projA", "../projB"
\* (a path is the sequence of its segments)
WorkdirPaths == << <<"..", "projA">>, <<"..", "projB">> >>
Workdirs == {WorkdirPaths[i] : i \in DOMAIN WorkdirPaths}
\* filepath.Base
Base(path) == path[Len(path)]
Names == {Base(p) : p \in Workdirs}
Branches == {"main", "feat"}
Contents == {1, 2}
FilePaths == {<<"a">>, <<"d", "b">>}
NoCommit == 0
NoCheckpoint == -1
RefNames == {"wmem-br/main", "wmem-br/feat", "wmem-br/head"}

\* bytes of the entry names used by the model
NameBytes ==
  [a |-> <<97>>, b |-> <<98>>, d |-> <<100>>, f |-> <<102>>, l |-> <<108>>,
   n |-> <<110>>]
    @@ ("d.x" :> <<100, 46, 120>>)
    @@ (".gitignore" :> <<46, 103, 105, 116, 105, 103, 110, 111, 114, 101>>)

\* ------------------------------------------------------------------- state
VARIABLES
  now,        \* wall clock, seconds
  nTicks,     \* clock advances so far
  nOps,       \* user operations so far
  nInv,       \* commit invocations started so far
  wd,         \* per workdir: filesystem, mtimes and the workdir's own Git repository
  commits,    \* every commit object ever created, indexed by its hash (1..Len)
  bare,       \* per workdir: the bare store repos/<name>.git, and what commitAll has
              \* written into it during the invocation, in the order of the writes
  workdirMap, \* md-internal/workdir-map.json: workdir name -> path
  checkpoint, \* cache/git-wmem-cache-<basename>.json: persisted root mtime
  metaLog,    \* commits of the meta-repository, oldest first
  metaDirty,  \* the meta-repository's working tree has uncommitted changes
  inv,        \* position of the running invocation
  commitInfo, \* CommitInfo of the running invocation
  pc,         \* per workdir: position of its Phase A task
  check,      \* per workdir: workdirCheckResult
  idx,        \* Phase B loop index into checkResults
  results,    \* workdirResults accumulated by Phase B
  sinceLast,  \* did the last invocation succeed, and the user's operations after it
  pre         \* stores, commit table and "sinceLast" as they were when the invocation started

mainVars == <<now, nTicks, nOps, nInv, wd, commits, bare, workdirMap, checkpoint,
          metaLog, metaDirty, inv, commitInfo, pc, check, idx, results, sinceLast, pre>>

\* the configuration side of an invocation (CommitWmem up to readCommitInfo),
\* with configured paths spelled character by character
VARIABLES
  config,     \* .git-wmem, md/commit-workdir-paths, md/commit/author and committer
  mapFile,    \* md-internal/workdir-map.json: name -> cleaned path
  repoDirs,   \* names n with a directory repos/<n>.git
  run,        \* the running invocation: position, loop index, in-memory map, error
  runPre      \* mapFile and repoDirs as they were when the invocation started

cfgVars == <<config, mapFile, repoDirs, run, runPre>>

\* the tree builders on their own: one workdir with nested repositories and
\* a root .gitignore, the tree of its wmem tip, and the tree written last
VARIABLES
  workdirFs,  \* files, directories, nested repositories and .gitignore lines
  tipTree,    \* tree of the commit at the tip of the workdir's wmem branch
  written     \* the root tree object written last into the bare store, and by which builder

treeVars == <<workdirFs, tipTree, written>>

vars == <<mainVars, cfgVars, treeVars>>

NoRun == [pc |-> "idle", i |-> 0, mem |-> <<>>, err |-> "", wrote |-> FALSE]
NoRunPre == [map |-> <<>>, repos |-> {}]

\* the files and directories a workdir of the tree builders may hold:
\* a, d.x, d/a and n/f, where n may be a nested repository
FileSlots == {<<"a">>, <<"d.x">>, <<"d", "a">>, <<"n", "f">>}
DirSlots == {<<"d">>, <<"n">>}

\* the symbolic link a workdir may hold, "l" in its root, and no link there
LinkSlots == {<<"l">>}
NoLink == <<>>

\* no tree written yet
NoTree == [by |-> "none", tree |-> <<>>]

\* the tree builders at rest: an empty workdir, an empty tip tree
TreeAtRest ==
  /\ workdirFs = [file |-> [p \in FileSlots |-> 0],
                  dir |-> [p \in DirSlots |-> [kind |-> "none", head |-> NoCommit]],
                  gitignore |-> {},
                  exec |-> {},
                  link |-> [p \in LinkSlots |-> NoLink]]
  /\ tipTree = <<>>
  /\ written = NoTree

\* the configuration side at rest
CfgAtRest ==
  /\ config = [marker |-> TRUE, paths |-> <<>>, author |-> "set", committer |-> "set"]
  /\ mapFile = <<>>
  /\ repoDirs = {}
  /\ run = NoRun
  /\ runPre = NoRunPre


userVars == <<nInv, commits, bare, workdirMap, checkpoint, metaLog, commitInfo>>

\* ------------------------------------------------------------- tree objects
\* A tree object is the sequence of its entries; a hash is modelled by the
\* object itself (equal content <=> equal hash).
FileEntry(n, c) == [name |-> n, mode |-> "100644", blob |-> c, sub |-> <<>>]

\* an entry of a file with the mode the builder has determined
ModeEntry(n, m, c) == [name |-> n, mode |-> m, blob |-> c, sub |-> <<>>]

DirEntry(n, s) == [name |-> n, mode |-> "40000", blob |-> 0, sub |-> s]

RECURSIVE LexLess(_, _)
LexLess(s, t) ==
  IF s = <<>> THEN t # <<>>
  ELSE IF t = <<>> THEN FALSE
  ELSE IF Head(s) # Head(t) THEN Head(s) < Head(t)
  ELSE LexLess(Tail(s), Tail(t))

\* go-git TreeEntrySorter: names compared as bytes, "/" appended to directories
GitSortKey(e) ==
  IF e.mode = "40000" THEN NameBytes[e.name] \o <<47>> ELSE NameBytes[e.name]

RECURSIVE TreeEntrySorter(_)
TreeEntrySorter(S) ==
  IF S = {} THEN <<>>
  ELSE LET m == CHOOSE x \in S :
                  \A y \in S \ {x} : LexLess(GitSortKey(x), GitSortKey(y))
       IN <<m>> \o TreeEntrySorter(S \ {m})

\* sort.Slice(treeEntries, Name < Name) in createTreeFromTouchedFiles
RECURSIVE SortByName(_)
SortByName(S) ==
  IF S = {} THEN <<>>
  ELSE LET m == CHOOSE x \in S :
                  \A y \in S \ {x} : ~LexLess(NameBytes[y.name], NameBytes[x.name])
       IN <<m>> \o SortByName(S \ {m})

\* Tree.Files(): every non-tree entry below the tree, with its full path
RECURSIVE TreeFiles(_, _)
TreeFiles(tree, prefix) ==
  UNION { IF tree[i].mode = "40000"
            THEN TreeFiles(tree[i].sub, Append(prefix, tree[i].name))
          ELSE IF tree[i].mode = "160000" THEN {}
            ELSE {[path |-> Append(prefix, tree[i].name),
                   mode |-> tree[i].mode, blob |-> tree[i].blob]}
          : i \in DOMAIN tree }

TreePaths(tree) == {f.path : f \in TreeFiles(tree, <<>>)}

BlobAt(tree, p) ==
  IF p \in TreePaths(tree)
    THEN (CHOOSE f \in TreeFiles(tree, <<>>) : f.path = p).blob
    ELSE 0

\* ---------------------------------------------------------------- filesystem
FileContent(f, p) == IF p = <<"a">> THEN f.fileA ELSE f.fileB

FileMtime(f, p) == IF p = <<"a">> THEN f.mtA ELSE f.mtB

FileExists(f, p) == FileContent(f, p) # 0

\* os.ReadDir without ".git"
ReadDir(f, dir) ==
  IF dir = <<>>
    THEN {e \in {[name |-> "a", isDir |-> FALSE], [name |-> "d", isDir |-> TRUE]} :
            IF e.isDir THEN f.hasDir ELSE f.fileA # 0}
    ELSE {e \in {[name |-> "b", isDir |-> FALSE]} : f.fileB # 0}

RECURSIVE createTreeFromFilesystem(_, _)
createTreeFromFilesystem(f, dir) ==
  TreeEntrySorter(
    { IF e.isDir
        THEN DirEntry(e.name, createTreeFromFilesystem(f, Append(dir, e.name)))
        ELSE FileEntry(e.name, FileContent(f, Append(dir, e.name)))
      : e \in ReadDir(f, dir) })

createTreeFromCurrentState(f) == createTreeFromFilesystem(f, <<>>)

\* the tree Git itself records for the working tree ("git add -A; git commit"):
\* as above, but Git does not record empty directories
GitWorktreeTree(f) ==
  createTreeFromFilesystem([f EXCEPT !.hasDir = (f.fileB # 0)], <<>>)

getFileListInDirectory(f) == {p \in FilePaths : FileExists(f, p)}

createTreeFromTouchedFiles(f, touchedFiles, baseTree) ==
  LET base == TreeFiles(baseTree, <<>>)
      kept == {e \in base : ~(e.path \in touchedFiles)}
      upd == {[path |-> p, mode |-> "100644", blob |-> FileContent(f, p)]
                : p \in {q \in touchedFiles : FileExists(f, q)}}
  IN SortByName({FileEntry(e.path[Len(e.path)], e.blob) : e \in kept \cup upd})

\* --------------------------------------------------------------- commit graph
Tree(c) == commits[c].tree

RECURSIVE Ancestors(_)
\* the commit itself and everything reachable through parents
Ancestors(c) ==
  {c} \cup UNION {Ancestors(commits[c].parents[i]) : i \in DOMAIN commits[c].parents}

\* Commit.IsAncestor
IsAncestor(a, b) == a \in Ancestors(b)

UserCommit(tree, parents, t) ==
  [tree |-> tree, parents |-> parents, time |-> t, kind |-> "user",
   branch |-> "", uid |-> 0]

\* workdirCheckResult before the task has run
NoCheck == [name |-> "", branch |-> "", modified |-> FALSE, err |-> FALSE]

\* "pre" while no invocation is running or has just ended
NoPre ==
  [refs |-> [n \in Names |-> [r \in RefNames |-> NoCommit]],
   objs |-> [n \in Names |-> {}],
   nMeta |-> 0, nCommits |-> 0, sinceLast |-> [ok |-> FALSE, edits |-> <<>>],
   lost |-> {}]

\* ----------------------------------------------------------------------- Init
InitFs ==
  [fileA |-> 1, mtA |-> 0, hasDir |-> TRUE, fileB |-> 1, mtB |-> 0, rootMt |-> 0]

InitTree == createTreeFromCurrentState(InitFs)

\* the state after construction at time t0, the workdirs' files being fsOf[w],
\* the commits of the workdirs being history and HEAD of w being headOf[w],
\* on branch main
InitOf(t0, fsOf, history, headOf) ==
    /\ now = t0
    /\ nTicks = 0
    /\ nOps = 0
    /\ nInv = 0
    /\ commits = history
    /\ wd = [w \in Workdirs |->
               [fs |-> fsOf[w], head |-> headOf[w], branch |-> "main",
                heads |-> [b \in Branches |-> IF b = "main" THEN headOf[w] ELSE NoCommit],
                headOK |-> TRUE]]
    /\ bare = [n \in Names |->
                 [exists |-> FALSE, refs |-> [r \in RefNames |-> NoCommit],
                  HEAD |-> "master", objs |-> {}, log |-> <<>>]]
    /\ workdirMap = [n \in {} |-> <<>>]
    /\ checkpoint = [n \in Names |-> NoCheckpoint]
    /\ metaLog = <<[kind |-> "init", uid |-> 0, bullets |-> <<>>, metaOnly |-> FALSE]>>
    /\ metaDirty = TRUE
    /\ inv = "idle"
    /\ commitInfo = [uid |-> 0]
    /\ pc = [w \in Workdirs |-> "idle"]
    /\ check = [w \in Workdirs |-> NoCheck]
    /\ idx = 0
    /\ results = <<>>
    /\ sinceLast = [ok |-> FALSE, edits |-> <<>>]
    /\ pre = NoPre
    /\ CfgAtRest
    /\ TreeAtRest

\* the first commit of each workdir: commit i belongs to WorkdirPaths[i]
RootCommitOf(w) == CHOOSE i \in DOMAIN WorkdirPaths : WorkdirPaths[i] = w

\* the state after construction at time t0, the workdirs' files being fsOf[w]
\* and their HEAD commits holding InitTree
InitAt(t0, fsOf) ==
  InitOf(t0, fsOf, [i \in 1..Len(WorkdirPaths) |-> UserCommit(InitTree, <<>>, t0)],
         [w \in Workdirs |-> RootCommitOf(w)])

Init == \E t0 \in {0, 2} : InitAt(t0, [w \in Workdirs |-> InitFs])

\* ------------------------------------------------------------ the user's side
Idle == inv \in {"idle", "ok", "err"}

\* "git status" of the workdir reports nothing (go-git Status.IsClean)
StatusClean(w) == GitWorktreeTree(wd[w].fs) = Tree(wd[w].head)

\* what "git checkout" leaves on disk: files that differ are rewritten now
CheckoutTree(f, tree) ==
  LET a2 == BlobAt(tree, <<"a">>)
      b2 == BlobAt(tree, <<"d", "b">>)
      d2 == (b2 # 0) \/ (f.hasDir /\ f.fileB = 0)
  IN [fileA |-> a2,
      mtA |-> IF a2 = f.fileA THEN f.mtA ELSE IF a2 = 0 THEN 0 ELSE now,
      hasDir |-> d2,
      fileB |-> b2,
      mtB |-> IF b2 = f.fileB THEN f.mtB ELSE IF b2 = 0 THEN 0 ELSE now,
      rootMt |-> IF (a2 = 0) # (f.fileA = 0) \/ d2 # f.hasDir THEN now ELSE f.rootMt]

\* creating or overwriting a file; creating a root entry touches the root mtime
WriteFs(f, p, c) ==
  IF p = <<"a">>
    THEN [f EXCEPT !.fileA = c, !.mtA = now,
                   !.rootMt = IF f.fileA = 0 THEN now ELSE f.rootMt]
    ELSE [f EXCEPT !.fileB = c, !.mtB = now, !.hasDir = TRUE,
                   !.rootMt = IF f.hasDir THEN f.rootMt ELSE now]

\* one operation of the user between two invocations; what the finished
\* invocation left in its task records is gone with its process
UserStep(op, w, p) ==
  /\ Idle
  /\ nOps < MaxUserOps
  /\ nOps' = nOps + 1
  /\ inv' = "idle"
  /\ pc' = [x \in Workdirs |-> "idle"]
  /\ check' = [x \in Workdirs |-> NoCheck]
  /\ idx' = 0
  /\ results' = <<>>
  /\ pre' = NoPre
  /\ sinceLast' = [sinceLast EXCEPT !.edits = Append(@, [op |-> op, w |-> w, p |-> p])]
  /\ UNCHANGED <<now, nTicks>>

UserWrite(w, p, c) ==
  /\ UserStep("write", w, p)
  /\ FileContent(wd[w].fs, p) # c
  /\ wd' = [wd EXCEPT ![w].fs = WriteFs(@, p, c)]
  /\ UNCHANGED <<userVars, metaDirty>>

\* rm <file>: removing a root entry touches the root mtime, "rm d/b" does not
UserDelete(w, p) ==
  /\ UserStep("delete", w, p)
  /\ FileExists(wd[w].fs, p)
  /\ wd' = [wd EXCEPT ![w].fs =
              IF p = <<"a">>
                THEN [@ EXCEPT !.fileA = 0, !.mtA = 0, !.rootMt = now]
                ELSE [@ EXCEPT !.fileB = 0, !.mtB = 0]]
  /\ UNCHANGED <<userVars, metaDirty>>

\* rm -r d
UserRmDir(w) ==
  /\ UserStep("rmdir", w, <<"d">>)
  /\ wd[w].fs.hasDir
  /\ wd' = [wd EXCEPT ![w].fs =
              [@ EXCEPT !.hasDir = FALSE, !.fileB = 0, !.mtB = 0, !.rootMt = now]]
  /\ UNCHANGED <<userVars, metaDirty>>

\* git add -A; git commit
UserGitCommit(w) ==
  /\ UserStep("commit", w, <<>>)
  /\ wd[w].headOK
  /\ ~StatusClean(w)
  /\ LET c == Len(commits) + 1 IN
       /\ commits' = Append(commits,
                        UserCommit(GitWorktreeTree(wd[w].fs), <<wd[w].head>>, now))
       /\ wd' = [wd EXCEPT ![w].head = c, ![w].heads[wd[w].branch] = c]
  /\ UNCHANGED <<nInv, bare, workdirMap, checkpoint, metaLog, commitInfo, metaDirty>>

\* git merge --no-ff <topic>: the topic commit changes one file; the merge
\* commit has two parents and the merged file is rewritten on disk
UserGitMerge(w, p, c) ==
  /\ UserStep("merge", w, p)
  /\ wd[w].headOK
  /\ StatusClean(w)
  /\ FileContent(wd[w].fs, p) # c
  /\ LET f2 == WriteFs(wd[w].fs, p, c)
         x == Len(commits) + 1
         m == Len(commits) + 2
     IN /\ commits' = commits \o
                        <<UserCommit(GitWorktreeTree(f2), <<wd[w].head>>, now),
                          UserCommit(GitWorktreeTree(f2), <<wd[w].head, x>>, now)>>
        /\ wd' = [wd EXCEPT ![w].fs = f2, ![w].head = m,
                            ![w].heads[wd[w].branch] = m]
  /\ UNCHANGED <<nInv, bare, workdirMap, checkpoint, metaLog, commitInfo, metaDirty>>

\* git checkout -b <b> when <b> is new, git checkout <b> otherwise
UserSwitchBranch(w, b) ==
  /\ UserStep("switch", w, <<>>)
  /\ wd[w].headOK
  /\ b # wd[w].branch
  /\ IF wd[w].heads[b] = NoCommit
       THEN wd' = [wd EXCEPT ![w].branch = b, ![w].heads[b] = wd[w].head]
       ELSE /\ StatusClean(w)
            /\ wd' = [wd EXCEPT ![w].branch = b, ![w].head = wd[w].heads[b],
                                ![w].fs = CheckoutTree(@, Tree(wd[w].heads[b]))]
  /\ UNCHANGED <<userVars, metaDirty>>

\* git checkout --orphan <new>: HEAD names a branch without commits
UserOrphan(w) ==
  /\ UserStep("orphan", w, <<>>)
  /\ wd[w].headOK
  /\ wd' = [wd EXCEPT ![w].headOK = FALSE]
  /\ UNCHANGED <<userVars, metaDirty>>

\* the user edits a tracked file of the meta-repository (for example msg-prefix)
UserEditMeta ==
  /\ UserStep("meta", <<>>, <<>>)
  /\ ~metaDirty
  /\ metaDirty' = TRUE
  /\ UNCHANGED <<userVars, wd>>

\* time passes between invocations
Tick(d) ==
  /\ Idle
  /\ nTicks < MaxTicks
  /\ nTicks' = nTicks + 1
  /\ now' = now + d
  /\ UNCHANGED <<nOps, wd, userVars, metaDirty, inv, pc, check, idx, results, sinceLast, pre>>

\* ------------------------------------------------------------------ init-repos
WmemBranch(b) == IF b = "main" THEN "wmem-br/main" ELSE "wmem-br/feat"

\* FindWorkdirName (configured and stored paths are spelled in cleaned form)
FindWorkdirName(path, m) ==
  IF \E n \in DOMAIN m : m[n] = path
    THEN [name |-> CHOOSE n \in DOMAIN m : m[n] = path, exists |-> TRUE]
    ELSE [name |-> "", exists |-> FALSE]

RECURSIVE SuffixSearch(_, _, _)
SuffixSearch(baseName, counter, m) ==
  LET candidate == baseName \o "-" \o ToString(counter)
  IN IF candidate \in DOMAIN m THEN SuffixSearch(baseName, counter + 1, m)
     ELSE candidate

generateWorkdirName(path, m) ==
  IF Base(path) \in DOMAIN m THEN SuffixSearch(Base(path), 2, m) ELSE Base(path)

\* objects a fetch from the workdir brings: everything reachable from its branches
FetchedObjects(w) ==
  UNION {Ancestors(wd[w].heads[b]) : b \in {x \in Branches : wd[w].heads[x] # NoCommit}}

\* createBareRepo: PlainInit, remote wmem-wd, fetch, createWmemBranch
createBareRepo(b, n, w) ==
  IF b[n].exists
    THEN [bare |-> b, err |-> TRUE]
    ELSE LET fetched == [b EXCEPT ![n].exists = TRUE, ![n].objs = FetchedObjects(w)]
         IN IF ~wd[w].headOK
              THEN [bare |-> fetched, err |-> TRUE]
              ELSE [bare |-> [fetched EXCEPT
                                ![n].refs[WmemBranch(wd[w].branch)] = wd[w].head],
                    err |-> FALSE]

RECURSIVE initReposFrom(_, _, _)
initReposFrom(i, m, b) ==
  IF i > Len(WorkdirPaths) THEN [map |-> m, bare |-> b, err |-> FALSE]
  ELSE LET w == WorkdirPaths[i] IN
    IF FindWorkdirName(w, m).exists THEN initReposFrom(i + 1, m, b)
    ELSE LET n == generateWorkdirName(w, m)
             created == createBareRepo(b, n, w)
         IN IF created.err
              THEN [map |-> m, bare |-> created.bare, err |-> TRUE]
              ELSE initReposFrom(i + 1,
                     [x \in DOMAIN m \cup {n} |-> IF x = n THEN w ELSE m[x]],
                     created.bare)

initRepos == initReposFrom(1, workdirMap, bare)

\* the workdirs whose change the invocation that has just aborted detected in
\* Phase A and did not record in a snapshot commit
DetectedNotRecorded ==
  {w \in Workdirs :
     /\ inv = "err"
     /\ ~check[w].err /\ check[w].modified
     /\ \A i \in DOMAIN results :
          ~(results[i].name = check[w].name /\ results[i].hasChanges)}

\* CommitWmem up to the start of Phase A: initRepos, readCommitInfo, readWorkdirMap
StartCommit ==
  /\ Idle
  /\ nInv < MaxInvocations
  /\ nInv' = nInv + 1
  /\ LET r == initRepos IN
       /\ bare' = [n \in Names |-> [r.bare[n] EXCEPT !.log = <<>>]]
       /\ IF r.err
            THEN /\ inv' = "err"
                 /\ UNCHANGED <<workdirMap, metaDirty, commitInfo>>
                 /\ pc' = [w \in Workdirs |-> "idle"]
                 /\ sinceLast' = [ok |-> FALSE, edits |-> <<>>]
            ELSE /\ inv' = "phaseA"
                 /\ workdirMap' = r.map
                 /\ metaDirty' = (metaDirty \/ r.map # workdirMap)
                 /\ commitInfo' = [uid |-> nInv + 1]
                 /\ pc' = [w \in Workdirs |-> "s1"]
                 /\ UNCHANGED sinceLast
  /\ check' = [w \in Workdirs |-> NoCheck]
  /\ idx' = 0
  /\ results' = <<>>
  /\ pre' = [refs |-> [n \in Names |-> bare[n].refs],
             objs |-> [n \in Names |-> bare[n].objs],
             nMeta |-> Len(metaLog), nCommits |-> Len(commits), sinceLast |-> sinceLast,
             lost |-> DetectedNotRecorded]
  /\ UNCHANGED <<now, nTicks, nOps, wd, commits, checkpoint, metaLog>>

\* --------------------------------------------------------- Phase A, steps 1-6
PhaseAVars == <<now, nTicks, nOps, nInv, wd, workdirMap, metaLog, inv,
                commitInfo, idx, results, sinceLast, pre>>

\* step 1: FindWorkdirName, getCurrentBranchName
Step1(w) ==
  /\ inv = "phaseA" /\ pc[w] = "s1"
  /\ LET f == FindWorkdirName(w, workdirMap) IN
       IF ~f.exists \/ ~wd[w].headOK
         THEN /\ check' = [check EXCEPT ![w].name = f.name, ![w].err = TRUE]
              /\ pc' = [pc EXCEPT ![w] = "done"]
         ELSE /\ check' = [check EXCEPT ![w].name = f.name,
                                        ![w].branch = wd[w].branch]
              /\ pc' = [pc EXCEPT ![w] = "s2"]
  /\ UNCHANGED <<PhaseAVars, commits, bare, checkpoint, metaDirty>>

\* Storer.SetEncodedObject of a commit, as an entry of a store's log
CommitStored(step, c) == [step |-> step, op |-> "commit", ref |-> "", c |-> c]

\* Storer.SetReference, as an entry of a store's log
RefSet(step, r, c) == [step |-> step, op |-> "ref", ref |-> r, c |-> c]

\* a step 2 that points wmem-br/<branch> at HEAD whether or not it exists
Step2_AlwaysReset(w) ==
  /\ inv = "phaseA" /\ pc[w] = "s2"
  /\ bare' = [bare EXCEPT ![check[w].name].refs[WmemBranch(check[w].branch)] =
                                wd[w].head]
  /\ pc' = [pc EXCEPT ![w] = "s3"]
  /\ UNCHANGED <<PhaseAVars, commits, check, checkpoint, metaDirty>>

\* step 2: ensureWmemBranchExists
Step2(w) ==
  /\ inv = "phaseA" /\ pc[w] = "s2"
  /\ LET n == check[w].name
         r == WmemBranch(check[w].branch)
     IN bare' = IF bare[n].refs[r] = NoCommit
                  THEN [bare EXCEPT ![n].refs[r] = wd[w].head,
                                    ![n].log = Append(@, RefSet(2, r, wd[w].head))]
                  ELSE bare
  /\ pc' = [pc EXCEPT ![w] = "s3"]
  /\ UNCHANGED <<PhaseAVars, commits, check, checkpoint, metaDirty>>

\* step 3: ensureWmemHeadBranch
ensureWmemHeadBranch(b, n, branch) == [b EXCEPT ![n].HEAD = WmemBranch(branch)]

Step3(w) ==
  /\ inv = "phaseA" /\ pc[w] = "s3"
  /\ bare' = ensureWmemHeadBranch(bare, check[w].name, check[w].branch)
  /\ pc' = [pc EXCEPT ![w] = "s4"]
  /\ UNCHANGED <<PhaseAVars, commits, check, checkpoint, metaDirty>>

\* a fetch that leaves a file behind in the workdir's root directory
Step4_TouchesWorkdir(w) ==
  /\ inv = "phaseA" /\ pc[w] = "s4"
  /\ bare' = [bare EXCEPT ![check[w].name].objs = @ \cup FetchedObjects(w)]
  /\ wd' = [wd EXCEPT ![w].fs.rootMt = now + 1]
  /\ pc' = [pc EXCEPT ![w] = "s5"]
  /\ UNCHANGED <<now, nTicks, nOps, nInv, workdirMap, metaLog, inv, commitInfo,
                 idx, results, sinceLast, pre, commits, check, checkpoint, metaDirty>>

\* step 4: fetchLatestChanges
Step4(w) ==
  /\ inv = "phaseA" /\ pc[w] = "s4"
  /\ bare' = [bare EXCEPT ![check[w].name].objs = @ \cup FetchedObjects(w)]
  /\ pc' = [pc EXCEPT ![w] = "s5"]
  /\ UNCHANGED <<PhaseAVars, commits, check, checkpoint, metaDirty>>

\* isCommitMerged
isCommitMerged(commitHash, targetHash) ==
  commitHash = targetHash \/ IsAncestor(commitHash, targetHash)

\* a merge commit that keeps the tip's tree instead of taking HEAD's
createWmemMergeCommit_TipTree(wmemBranchHash, workdirCommitHash, branch, info) ==
  [tree |-> Tree(wmemBranchHash),
   parents |-> <<wmemBranchHash, workdirCommitHash>>,
   time |-> now, kind |-> "merge", branch |-> branch, uid |-> info.uid]

\* a merge commit with the workdir's commit as first parent
createWmemMergeCommit_HeadFirst(wmemBranchHash, workdirCommitHash, branch, info) ==
  [tree |-> Tree(workdirCommitHash),
   parents |-> <<workdirCommitHash, wmemBranchHash>>,
   time |-> now, kind |-> "merge", branch |-> branch, uid |-> info.uid]

createWmemMergeCommit(wmemBranchHash, workdirCommitHash, branch, info) ==
  [tree |-> Tree(workdirCommitHash),
   parents |-> <<wmemBranchHash, workdirCommitHash>>,
   time |-> now, kind |-> "merge", branch |-> branch, uid |-> info.uid]

\* step 5: ensureWorkdirCommitMerged
Step5(w) ==
  /\ inv = "phaseA" /\ pc[w] = "s5"
  /\ LET n == check[w].name
         r == WmemBranch(check[w].branch)
         tip == bare[n].refs[r]
         m == Len(commits) + 1
     IN IF isCommitMerged(wd[w].head, tip)
          THEN UNCHANGED <<commits, bare>>
          ELSE /\ commits' = Append(commits,
                    createWmemMergeCommit(tip, wd[w].head, check[w].branch, commitInfo))
               /\ bare' = [bare EXCEPT ![n].objs = @ \cup {m},
                                       ![n].refs[r] = m,
                                       ![n].refs["wmem-br/head"] = m,
                                       ![n].log = @ \o <<CommitStored(5, m),
                                                          RefSet(5, r, m),
                                                          RefSet(5, "wmem-br/head", m)>>]
  /\ pc' = [pc EXCEPT ![w] = "s6"]
  /\ UNCHANGED <<PhaseAVars, check, checkpoint, metaDirty>>

\* -------------------------------------------------- step 6: the change detector
hasFilesNewerThan(f, since) ==
  \E p \in FilePaths :
    FileExists(f, p) /\ FileMtime(f, p) > since - ToleranceSeconds

\* result: deleted? and the value the persisted checkpoint has afterwards
hasFilesDeletedUsingDirectoryMtime(w, n, tip) ==
  LET currentDirMtime == wd[w].fs.rootMt
      lastMtime == checkpoint[Base(w)]
  IN IF lastMtime # NoCheckpoint /\ ~(currentDirMtime > lastMtime)
       THEN [deleted |-> FALSE, cp |-> lastMtime]
     ELSE IF currentDirMtime < now - OneHourSeconds
       THEN [deleted |-> FALSE, cp |-> currentDirMtime]
     ELSE [deleted |-> (TreePaths(Tree(tip)) \ getFileListInDirectory(wd[w].fs)) # {},
           cp |-> currentDirMtime]

\* result: changes? and the checkpoint afterwards
hasFilesNewerThanLastWmemCommit(w, n, tip) ==
  IF hasFilesNewerThan(wd[w].fs, commits[tip].time)
    THEN [changes |-> TRUE, cp |-> checkpoint[Base(w)]]
    ELSE LET d == hasFilesDeletedUsingDirectoryMtime(w, n, tip)
         IN [changes |-> d.deleted, cp |-> d.cp]

hasWorkingDirectoryChanges(w) == ~StatusClean(w)

\* the tip's message never has the form "Commit from workdir: <hash>"
isHeadUnchangedSinceLastWmemCommit(w, tip) ==
  \E i \in DOMAIN commits[tip].parents : commits[tip].parents[i] = wd[w].head

\* findLastMergeCommit: the newest commit with two parents in HEAD's history
MergeCommitsOf(c) == {x \in Ancestors(c) : Len(commits[x].parents) = 2}

findLastMergeCommit(c) ==
  CHOOSE x \in MergeCommitsOf(c) : \A y \in MergeCommitsOf(c) : y <= x

\* getTouchedFilesSinceMerge: paths that differ between the two trees
getTouchedFilesSinceMerge(w, lastMerge) ==
  {p \in FilePaths : BlobAt(Tree(lastMerge), p) # BlobAt(Tree(wd[w].head), p)}

FullTreeCheck(w, tip) ==
  IF MergeCommitsOf(wd[w].head) = {}
    THEN createTreeFromFilesystem(wd[w].fs, <<>>) # Tree(tip)
    ELSE LET touchedFiles == getTouchedFilesSinceMerge(w, findLastMergeCommit(wd[w].head))
         IN IF touchedFiles = {} THEN FALSE
            ELSE createTreeFromTouchedFiles(wd[w].fs, touchedFiles, Tree(tip)) # Tree(tip)

\* result: modified? and the checkpoint afterwards
checkModifiedFiles(w, n, tip) ==
  LET t == hasFilesNewerThanLastWmemCommit(w, n, tip)
  IN IF ~t.changes THEN [modified |-> FALSE, cp |-> t.cp]
     ELSE IF ~hasWorkingDirectoryChanges(w) /\ isHeadUnchangedSinceLastWmemCommit(w, tip)
       THEN [modified |-> FALSE, cp |-> t.cp]
     ELSE [modified |-> FullTreeCheck(w, tip), cp |-> t.cp]

\* step 6 of the task of w, the task standing at position "at"
Step6From(w, at) ==
  /\ inv = "phaseA" /\ pc[w] = at
  /\ LET n == check[w].name
         tip == bare[n].refs[WmemBranch(check[w].branch)]
         r == checkModifiedFiles(w, n, tip)
     IN /\ check' = [check EXCEPT ![w].modified = r.modified]
        /\ checkpoint' = [checkpoint EXCEPT ![Base(w)] = r.cp]
        /\ metaDirty' = (metaDirty \/ r.cp # checkpoint[Base(w)])
  /\ pc' = [pc EXCEPT ![w] = "done"]
  /\ UNCHANGED <<PhaseAVars, commits, bare>>

Step6(w) == Step6From(w, "s6")

\* ------------------------------------ step 6 and the lock of the shared cache
\* globalCommitCache.mu is a sync.RWMutex shared by the Phase A tasks. Every
\* critical section of step 6 takes the lock and gives it back before the next
\* one starts; the in-memory cache is empty when the process starts and every
\* workdir has keys of its own, so every lookup misses. The sections of the
\* task of w, in the order step 6 runs them, "r" for RLock and "w" for Lock:
\* deletion detection reads the directory-state cache, then (root modified
\* within the hour) getTrackedFilesFromWmemTree reads and fills the wmem-tree
\* cache and the directory state is stored; the touched-files tier reads and
\* fills the touched-files cache, then the tree-hash cache
DeletionSections == <<"r", "r", "w", "w">>
TouchedSections == <<"r", "w", "r", "w">>

cacheLockSections(w) ==
  LET n == check[w].name
      tip == bare[n].refs[WmemBranch(check[w].branch)]
      t == hasFilesNewerThanLastWmemCommit(w, n, tip)
      lastMtime == checkpoint[Base(w)]
      deletion ==
        IF hasFilesNewerThan(wd[w].fs, commits[tip].time) THEN <<>>
        ELSE IF lastMtime # NoCheckpoint /\ ~(wd[w].fs.rootMt > lastMtime) THEN <<>>
        ELSE IF wd[w].fs.rootMt < now - OneHourSeconds THEN SubSeq(DeletionSections, 1, 1)
        ELSE DeletionSections
      touched ==
        IF ~t.changes THEN <<>>
        ELSE IF ~hasWorkingDirectoryChanges(w) /\ isHeadUnchangedSinceLastWmemCommit(w, tip)
          THEN <<>>
        ELSE IF MergeCommitsOf(wd[w].head) = {} THEN <<>>
        ELSE IF getTouchedFilesSinceMerge(w, findLastMergeCommit(wd[w].head)) = {}
          THEN SubSeq(TouchedSections, 1, 2)
        ELSE TouchedSections
  IN deletion \o touched

MaxSections == Len(DeletionSections) + Len(TouchedSections)

\* positions of a task inside step 6: k sections done and waiting for the next
\* one (or for the rest of step 6), or inside section k + 1 with the lock held
Waiting(k) == IF k = 0 THEN "s6" ELSE "s6+" \o ToString(k)
Holding(k) == "s6+" \o ToString(k) \o "h"

muHeldBy(w, kind) ==
  \E k \in 0..(MaxSections - 1) :
    pc[w] = Holding(k) /\ cacheLockSections(w)[k + 1] = kind

\* mu.RLock() and mu.Lock(): a reader enters when no writer is inside, a
\* writer when nobody is inside
muAcquire(w) ==
  /\ inv = "phaseA"
  /\ \E k \in 0..(MaxSections - 1) :
       /\ pc[w] = Waiting(k)
       /\ k < Len(cacheLockSections(w))
       /\ \A o \in Workdirs \ {w} : ~muHeldBy(o, "w")
       /\ cacheLockSections(w)[k + 1] = "w" =>
            \A o \in Workdirs \ {w} : ~muHeldBy(o, "r")
       /\ pc' = [pc EXCEPT ![w] = Holding(k)]
  /\ UNCHANGED <<PhaseAVars, commits, bare, check, checkpoint, metaDirty>>

\* a cache whose writers never call mu.Unlock()
muRelease_WriterStays(w) ==
  /\ inv = "phaseA"
  /\ \E k \in 0..(MaxSections - 1) :
       /\ pc[w] = Holding(k)
       /\ cacheLockSections(w)[k + 1] = "r"
       /\ pc' = [pc EXCEPT ![w] = Waiting(k + 1)]
  /\ UNCHANGED <<PhaseAVars, commits, bare, check, checkpoint, metaDirty>>

\* mu.RUnlock() and mu.Unlock(), explicit or deferred: the section ends
muRelease(w) ==
  /\ inv = "phaseA"
  /\ \E k \in 0..(MaxSections - 1) :
       /\ pc[w] = Holding(k)
       /\ pc' = [pc EXCEPT ![w] = Waiting(k + 1)]
  /\ UNCHANGED <<PhaseAVars, commits, bare, check, checkpoint, metaDirty>>

\* the rest of step 6, all its critical sections being over
Step6Locked(w) ==
  \E k \in 0..MaxSections :
    /\ pc[w] = Waiting(k)
    /\ k = Len(cacheLockSections(w))
    /\ Step6From(w, Waiting(k))

\* a join that waits for the first task only
Join_FirstDone ==
  /\ inv = "phaseA"
  /\ pc[WorkdirPaths[1]] = "done"
  /\ inv' = "phaseB"
  /\ idx' = 1
  /\ UNCHANGED <<now, nTicks, nOps, nInv, wd, commits, bare, workdirMap, checkpoint,
                 metaLog, metaDirty, commitInfo, pc, check, results, sinceLast, pre>>

\* wg.Wait(): every Phase A task has returned
Join ==
  /\ inv = "phaseA"
  /\ \A w \in Workdirs : pc[w] = "done"
  /\ inv' = "phaseB"
  /\ idx' = 1
  /\ UNCHANGED <<now, nTicks, nOps, nInv, wd, commits, bare, workdirMap, checkpoint,
                 metaLog, metaDirty, commitInfo, pc, check, results, sinceLast, pre>>

\* ------------------------------------------------------- Phase B, steps 7-9
\* a snapshot commit whose message gets a wmem-uid generated anew
createRegularCommit_FreshUid(wmemBranchHash, info, w) ==
  [tree |-> createTreeFromCurrentState(wd[w].fs), parents |-> <<wmemBranchHash>>,
   time |-> now, kind |-> "snapshot", branch |-> "", uid |-> info.uid + 1]

createRegularCommit(wmemBranchHash, info, w) ==
  [tree |-> createTreeFromCurrentState(wd[w].fs), parents |-> <<wmemBranchHash>>,
   time |-> now, kind |-> "snapshot", branch |-> "", uid |-> info.uid]

\* a Phase B that moves wmem-br/head before wmem-br/<branch>
PhaseB_HeadFirst ==
  /\ inv = "phaseB"
  /\ idx <= Len(WorkdirPaths)
  /\ LET w == WorkdirPaths[idx]
         n == check[w].name
         r == WmemBranch(check[w].branch)
         s == Len(commits) + 1
     IN IF check[w].err
          THEN /\ inv' = "err"
               /\ sinceLast' = [ok |-> FALSE, edits |-> <<>>]
               /\ UNCHANGED <<commits, bare, results, idx>>
        ELSE IF ~check[w].modified
          THEN /\ results' = Append(results,
                    [name |-> n, branch |-> check[w].branch,
                     hash |-> NoCommit, hasChanges |-> FALSE])
               /\ idx' = idx + 1
               /\ UNCHANGED <<commits, bare, inv, sinceLast>>
        ELSE /\ commits' = Append(commits,
                    createRegularCommit(bare[n].refs[r], commitInfo, w))
             /\ bare' = [bare EXCEPT ![n].objs = @ \cup {s},
                                     ![n].refs[r] = s,
                                     ![n].refs["wmem-br/head"] = s,
                                     ![n].log = @ \o <<CommitStored(8, s),
                                                        RefSet(9, "wmem-br/head", s),
                                                        RefSet(8, r, s)>>]
             /\ results' = Append(results,
                    [name |-> n, branch |-> check[w].branch,
                     hash |-> s, hasChanges |-> TRUE])
             /\ idx' = idx + 1
             /\ UNCHANGED <<inv, sinceLast>>
  /\ UNCHANGED <<now, nTicks, nOps, nInv, wd, workdirMap, checkpoint, metaLog,
                 metaDirty, commitInfo, pc, check, pre>>

\* one iteration of commitAll's loop over checkResults
PhaseB ==
  /\ inv = "phaseB"
  /\ idx <= Len(WorkdirPaths)
  /\ LET w == WorkdirPaths[idx]
         n == check[w].name
         r == WmemBranch(check[w].branch)
         s == Len(commits) + 1
     IN IF check[w].err
          THEN /\ inv' = "err"
               /\ sinceLast' = [ok |-> FALSE, edits |-> <<>>]
               /\ UNCHANGED <<commits, bare, results, idx>>
        ELSE IF ~check[w].modified
          THEN /\ results' = Append(results,
                    [name |-> n, branch |-> check[w].branch,
                     hash |-> NoCommit, hasChanges |-> FALSE])
               /\ idx' = idx + 1
               /\ UNCHANGED <<commits, bare, inv, sinceLast>>
        ELSE /\ commits' = Append(commits,
                    createRegularCommit(bare[n].refs[r], commitInfo, w))
             /\ bare' = [bare EXCEPT ![n].objs = @ \cup {s},
                                     ![n].refs[r] = s,
                                     ![n].refs["wmem-br/head"] = s,
                                     ![n].log = @ \o <<CommitStored(8, s),
                                                        RefSet(8, r, s),
                                                        RefSet(9, "wmem-br/head", s)>>]
             /\ results' = Append(results,
                    [name |-> n, branch |-> check[w].branch,
                     hash |-> s, hasChanges |-> TRUE])
             /\ idx' = idx + 1
             /\ UNCHANGED <<inv, sinceLast>>
  /\ UNCHANGED <<now, nTicks, nOps, nInv, wd, workdirMap, checkpoint, metaLog,
                 metaDirty, commitInfo, pc, check, pre>>

hasAnyChanges == \E i \in DOMAIN results : results[i].hasChanges

\* a metadata check that never reports a change
hasWmemRepoMetadataChanges_Never == FALSE

hasWmemRepoMetadataChanges == metaDirty

\* a message body with a bullet for every result, changed or not
generateWmemRepoCommitMessage_AllResults(info, workdirResults) ==
  [uid |-> info.uid,
   bullets |-> [i \in DOMAIN workdirResults |->
                  [name |-> workdirResults[i].name, branch |-> workdirResults[i].branch,
                   shortHash |-> workdirResults[i].hash]],
   metaOnly |-> workdirResults = <<>>]

\* the results of the workdirs that have changes, in the order of the results
RECURSIVE ChangedResults(_)
ChangedResults(workdirResults) ==
  IF workdirResults = <<>> THEN <<>>
  ELSE (IF Head(workdirResults).hasChanges THEN <<Head(workdirResults)>> ELSE <<>>)
         \o ChangedResults(Tail(workdirResults))

\* generateWmemRepoCommitMessage: the uid line of CommitInfo, one bullet
\* `name` `branch` `hash[:12]` per result with changes, and the metadata-only
\* line when there is none.  (A hash is the number of its commit; the first
\* twelve characters of a hash are written as that number.)
generateWmemRepoCommitMessage(info, workdirResults) ==
  LET changed == ChangedResults(workdirResults) IN
    [uid |-> info.uid,
     bullets |-> [i \in DOMAIN changed |->
                    [name |-> changed[i].name, branch |-> changed[i].branch,
                     shortHash |-> changed[i].hash]],
     metaOnly |-> changed = <<>>]

\* createWmemCommit: git add of everything, one commit, empty commits allowed
createWmemCommit(info, workdirResults) ==
  LET message == generateWmemRepoCommitMessage(info, workdirResults) IN
    [kind |-> "summary", uid |-> message.uid,
     bullets |-> message.bullets, metaOnly |-> message.metaOnly]

\* the end of commitAll
Summary ==
  /\ inv = "phaseB"
  /\ idx > Len(WorkdirPaths)
  /\ IF hasAnyChanges \/ hasWmemRepoMetadataChanges
       THEN /\ metaLog' = Append(metaLog, createWmemCommit(commitInfo, results))
            /\ metaDirty' = FALSE
       ELSE UNCHANGED <<metaLog, metaDirty>>
  /\ inv' = "ok"
  /\ sinceLast' = [ok |-> TRUE, edits |-> <<>>]
  /\ UNCHANGED <<now, nTicks, nOps, nInv, wd, commits, bare, workdirMap, checkpoint,
                 commitInfo, pc, check, idx, results, pre>>

\* ------------------------------------------------------------ specification
UserOp ==
  \/ \E w \in Workdirs, p \in FilePaths, c \in Contents : UserWrite(w, p, c) /\ UNCHANGED <<cfgVars, treeVars>>
  \/ \E w \in Workdirs, p \in FilePaths : UserDelete(w, p) /\ UNCHANGED <<cfgVars, treeVars>>
  \/ \E w \in Workdirs : UserRmDir(w) /\ UNCHANGED <<cfgVars, treeVars>>
  \/ \E w \in Workdirs : UserGitCommit(w) /\ UNCHANGED <<cfgVars, treeVars>>
  \/ \E w \in Workdirs, p \in FilePaths, c \in Contents : UserGitMerge(w, p, c) /\ UNCHANGED <<cfgVars, treeVars>>
  \/ \E w \in Workdirs, b \in Branches : UserSwitchBranch(w, b) /\ UNCHANGED <<cfgVars, treeVars>>
  \/ \E w \in Workdirs : UserOrphan(w) /\ UNCHANGED <<cfgVars, treeVars>>
  \/ UserEditMeta /\ UNCHANGED <<cfgVars, treeVars>>

Next ==
  \/ UserOp
  \/ \E d \in {1, OneHourSeconds} : Tick(d) /\ UNCHANGED <<cfgVars, treeVars>>
  \/ StartCommit /\ UNCHANGED <<cfgVars, treeVars>>
  \/ \E w \in Workdirs : Step1(w) /\ UNCHANGED <<cfgVars, treeVars>>
  \/ \E w \in Workdirs : Step2(w) /\ UNCHANGED <<cfgVars, treeVars>>
  \/ \E w \in Workdirs : Step3(w) /\ UNCHANGED <<cfgVars, treeVars>>
  \/ \E w \in Workdirs : Step4(w) /\ UNCHANGED <<cfgVars, treeVars>>
  \/ \E w \in Workdirs : Step5(w) /\ UNCHANGED <<cfgVars, treeVars>>
  \/ \E w \in Workdirs : Step6(w) /\ UNCHANGED <<cfgVars, treeVars>>
  \/ Join /\ UNCHANGED <<cfgVars, treeVars>>
  \/ PhaseB /\ UNCHANGED <<cfgVars, treeVars>>
  \/ Summary /\ UNCHANGED <<cfgVars, treeVars>>

Spec == Init /\ [][Next]_vars

\* the pipeline, started when the first workdir has an uncommitted change: its
\* file a has been overwritten since its HEAD commit
DirtyFs == [InitFs EXCEPT !.fileA = 2]

DirtyInit ==
  InitAt(0, [w \in Workdirs |-> IF w = WorkdirPaths[1] THEN DirtyFs ELSE InitFs])

DirtySpec == DirtyInit /\ [][Next]_vars

\* the pipeline, started when an earlier invocation at time 2 has succeeded:
\* both workdirs are recorded in the map, each bare store holds the workdir's
\* HEAD commit with wmem-br/main at it, both checkpoints hold the root mtime
\* and the summary commit of that invocation (with a wmem-uid of its own) is
\* in the meta-repository
TrackedUid == MaxInvocations + 1

TrackedInit ==
  /\ now = 2
  /\ nTicks = 0
  /\ nOps = 0
  /\ nInv = 0
  /\ commits = [i \in 1..Len(WorkdirPaths) |-> UserCommit(InitTree, <<>>, 2)]
  /\ wd = [w \in Workdirs |->
             LET c == CHOOSE i \in DOMAIN WorkdirPaths : WorkdirPaths[i] = w
             IN [fs |-> InitFs, head |-> c, branch |-> "main",
                 heads |-> [b \in Branches |-> IF b = "main" THEN c ELSE NoCommit],
                 headOK |-> TRUE]]
  /\ bare = [n \in Names |->
               LET c == CHOOSE i \in DOMAIN WorkdirPaths : Base(WorkdirPaths[i]) = n
               IN [exists |-> TRUE,
                   refs |-> [r \in RefNames |-> IF r = "wmem-br/main" THEN c ELSE NoCommit],
                   HEAD |-> "wmem-br/main", objs |-> {c}, log |-> <<>>]]
  /\ workdirMap = [n \in Names |-> CHOOSE w \in Workdirs : Base(w) = n]
  /\ checkpoint = [n \in Names |-> InitFs.rootMt]
  /\ metaLog = <<[kind |-> "init", uid |-> 0, bullets |-> <<>>, metaOnly |-> FALSE],
                 [kind |-> "summary", uid |-> TrackedUid, bullets |-> <<>>,
                  metaOnly |-> TRUE]>>
  /\ metaDirty = FALSE
  /\ inv = "idle"
  /\ commitInfo = [uid |-> TrackedUid]
  /\ pc = [w \in Workdirs |-> "idle"]
  /\ check = [w \in Workdirs |-> NoCheck]
  /\ idx = 0
  /\ results = <<>>
  /\ sinceLast = [ok |-> TRUE, edits |-> <<>>]
  /\ pre = NoPre
  /\ CfgAtRest
  /\ TreeAtRest

TrackedSpec == TrackedInit /\ [][Next]_vars

\* the pipeline, started when the first workdir has a merge commit in its
\* history and a commit after it: "git merge --no-ff topic" has changed d/b,
\* the commit after it has changed a, and nothing is uncommitted
MergedFsAtMerge == [InitFs EXCEPT !.fileB = 2]
MergedFs == [MergedFsAtMerge EXCEPT !.fileA = 2]

MergedHistory ==
  LET n == Len(WorkdirPaths) IN
    [i \in 1..n |-> UserCommit(InitTree, <<>>, 0)]
      \o <<UserCommit(GitWorktreeTree(MergedFsAtMerge), <<1>>, 0),
           UserCommit(GitWorktreeTree(MergedFsAtMerge), <<1, n + 1>>, 0),
           UserCommit(GitWorktreeTree(MergedFs), <<n + 2>>, 0)>>

MergedInit ==
  InitOf(0, [w \in Workdirs |-> IF w = WorkdirPaths[1] THEN MergedFs ELSE InitFs],
         MergedHistory,
         [w \in Workdirs |-> IF w = WorkdirPaths[1] THEN Len(WorkdirPaths) + 3
                              ELSE RootCommitOf(w)])

MergedSpec == MergedInit /\ [][Next]_vars

\* the pipeline with the critical sections of step 6 as steps of their own,
\* started after a successful invocation or with a merge in the history; the
\* user deletes files and detaches workdirs between and during invocations.
\* The Go scheduler runs every runnable goroutine and the main thread sooner
\* or later: some enabled step of the invocation is taken
LiveInit == TrackedInit \/ MergedInit

LivePipeline ==
  \/ \E w \in Workdirs : Step1(w) /\ UNCHANGED <<cfgVars, treeVars>>
  \/ \E w \in Workdirs : Step2(w) /\ UNCHANGED <<cfgVars, treeVars>>
  \/ \E w \in Workdirs : Step3(w) /\ UNCHANGED <<cfgVars, treeVars>>
  \/ \E w \in Workdirs : Step4(w) /\ UNCHANGED <<cfgVars, treeVars>>
  \/ \E w \in Workdirs : Step5(w) /\ UNCHANGED <<cfgVars, treeVars>>
  \/ \E w \in Workdirs : muAcquire(w) /\ UNCHANGED <<cfgVars, treeVars>>
  \/ \E w \in Workdirs : muRelease(w) /\ UNCHANGED <<cfgVars, treeVars>>
  \/ \E w \in Workdirs : Step6Locked(w) /\ UNCHANGED <<cfgVars, treeVars>>
  \/ Join /\ UNCHANGED <<cfgVars, treeVars>>
  \/ PhaseB /\ UNCHANGED <<cfgVars, treeVars>>
  \/ Summary /\ UNCHANGED <<cfgVars, treeVars>>

LiveNext ==
  \/ \E w \in Workdirs, p \in FilePaths : UserDelete(w, p) /\ UNCHANGED <<cfgVars, treeVars>>
  \/ \E w \in Workdirs : UserOrphan(w) /\ UNCHANGED <<cfgVars, treeVars>>
  \/ StartCommit /\ UNCHANGED <<cfgVars, treeVars>>
  \/ LivePipeline

LiveSpec == LiveInit /\ [][LiveNext]_vars /\ WF_vars(LivePipeline)

\* ------------------------------------------------------- auxiliary definitions
NameOf(w) == FindWorkdirName(w, workdirMap).name

\* the tip of the wmem branch that tracks the workdir's current branch
TipOf(w) == bare[NameOf(w)].refs[WmemBranch(wd[w].branch)]

\* commits the running (or just ended) invocation has written
NewCommits == (pre.nCommits + 1)..Len(commits)

NewOfKind(n, k) == {c \in NewCommits \cap bare[n].objs : commits[c].kind = k}

NewMeta == (pre.nMeta + 1)..Len(metaLog)

\* equal trees hold the same files (path, mode, content); empty directories aside
SameFiles(t1, t2) == TreeFiles(t1, <<>>) = TreeFiles(t2, <<>>)

\* ----------------------------------------------------------------- claim C1
\* C1: the step-6 verdict has no false negatives: a workdir reported unchanged
\* has a filesystem tree equal to the tree of its wmem tip; and after every
\* successful invocation the tip's tree of every workdir equals the tree built
\* from what is on disk.  (Stated on the files the trees hold, which equal
\* trees share.)
C1_NoFalseNegatives ==
  /\ \A w \in Workdirs :
        (inv \in {"phaseA", "phaseB", "ok"} /\ pc[w] = "done"
           /\ ~check[w].err /\ ~check[w].modified)
          => SameFiles(createTreeFromCurrentState(wd[w].fs), Tree(TipOf(w)))
  /\ inv = "ok" =>
        \A w \in Workdirs :
          SameFiles(Tree(TipOf(w)), createTreeFromCurrentState(wd[w].fs))

\* ----------------------------------------------------------------- claim C2
\* the invocation now ended follows a successful one with no user operation
\* in between
Quiet == pre.sinceLast.ok /\ pre.sinceLast.edits = <<>>

\* C2: commit is idempotent: a successful invocation that follows a successful
\* one, with no filesystem change, no HEAD or branch change and no edit of the
\* meta-repository in between, adds no commit to any bare store, adds no
\* commit to the meta-repository and leaves every wmem-br/* ref as it was.
C2_Idempotent ==
  (inv = "ok" /\ Quiet) =>
    /\ NewCommits = {}
    /\ NewMeta = {}
    /\ \A n \in Names : bare[n].refs = pre.refs[n]

\* ----------------------------------------------------------------- claim C3
\* C3: no partial commit on failure: when an invocation ends with an error, no
\* snapshot commit was added to any bare store, no summary commit was added to
\* the meta-repository, and each bare store holds at most the step-5 merge
\* commit as a new commit.
C3_NoPartialCommit ==
  inv = "err" =>
    /\ NewMeta = {}
    /\ \A n \in Names :
         /\ NewOfKind(n, "snapshot") = {}
         /\ Cardinality(NewOfKind(n, "merge")) <= 1

\* ----------------------------------------------------------------- claim C4
\* C4: head tracker: after every successful invocation, in every bare store
\* wmem-br/head exists and points at the same commit as wmem-br/<B>, B being
\* the workdir's current branch (first commit and branch switch included).
C4_HeadTracker ==
  inv = "ok" =>
    \A w \in Workdirs :
      /\ bare[NameOf(w)].refs["wmem-br/head"] # NoCommit
      /\ bare[NameOf(w)].refs["wmem-br/head"] = TipOf(w)

\* ----------------------------------------------------------------- claim C5
\* C5: the wmem-uid is fixed once per invocation: every commit the invocation
\* writes (merge commits, snapshot commits, the summary commit) carries the
\* uid the invocation's CommitInfo holds.
C5_SingleUid ==
  inv \in {"phaseA", "phaseB", "ok", "err"} =>
    /\ \A c \in NewCommits : commits[c].uid = commitInfo.uid
    /\ \A i \in NewMeta : metaLog[i].uid = commitInfo.uid

\* an invocation has written a merge commit, a snapshot commit and a summary
C5_Witness ==
  /\ inv = "ok"
  /\ \E n \in Names : NewOfKind(n, "merge") # {}
  /\ \E n \in Names : NewOfKind(n, "snapshot") # {}
  /\ NewMeta # {}

\* ----------------------------------------------------------------- claim C6
SnapshotProduced == \E n \in Names : NewOfKind(n, "snapshot") # {}

MergeWritten == \E n \in Names : NewOfKind(n, "merge") # {}

\* C7: whenever an invocation writes a merge commit into a bare store, the
\* same invocation also adds a summary commit to the meta-repository, and the
\* newest meta-repository commit carries the merge commit's wmem-uid.
C7_MergeHasSummary ==
  (inv = "ok" /\ MergeWritten) =>
    /\ Cardinality(NewMeta) = 1
    /\ \A n \in Names : \A c \in NewOfKind(n, "merge") :
         metaLog[Len(metaLog)].uid = commits[c].uid

\* ----------------------------------------------------------------- claim C8
\* C8: workdir-merge: when at step 5 the workdir's HEAD is neither equal to nor
\* an ancestor of the wmem tip T, the step writes exactly one commit M with
\* parents [T, HEAD], the tree of HEAD and the merge message of the workdir's
\* branch carrying the invocation's CommitInfo, and moves wmem-br/<B> and
\* wmem-br/head to M before the step-6 verdict is computed; when HEAD is
\* already T or an ancestor of T, step 5 writes no commit and moves no ref.
C8_WorkdirMerge ==
  [][\A w \in Workdirs :
       (inv = "phaseA" /\ pc[w] = "s5" /\ pc'[w] = "s6") =>
         LET n == check[w].name
             r == WmemBranch(wd[w].branch)
             T == bare[n].refs[r]
             H == wd[w].head
             M == Len(commits) + 1
         IN IF H # T /\ ~IsAncestor(H, T)
              THEN /\ Len(commits') = Len(commits) + 1
                   /\ commits'[M].parents = <<T, H>>
                   /\ commits'[M].tree = Tree(H)
                   /\ commits'[M].kind = "merge"
                   /\ commits'[M].branch = wd[w].branch
                   /\ commits'[M].uid = commitInfo.uid
                   /\ bare'[n].refs[r] = M
                   /\ bare'[n].refs["wmem-br/head"] = M
                   /\ check'[w].modified = FALSE
              ELSE /\ commits' = commits
                   /\ bare' = bare]_vars

\* step 5 has just written a merge commit and both refs name it, the verdict
\* of step 6 still to come
C8_Witness ==
  \E w \in Workdirs :
    /\ inv = "phaseA" /\ pc[w] = "s6"
    /\ NewOfKind(check[w].name, "merge") # {}
    /\ bare[check[w].name].refs["wmem-br/head"] \in NewOfKind(check[w].name, "merge")
    /\ commits[TipOf(w)].parents[2] = wd[w].head

\* ----------------------------------------------------------------- claim C9
\* C9: deletions are recorded: when, after a successful invocation, the only
\* thing the user does is delete (without git rm) a file that the tip's tree
\* holds, at the root or in a subdirectory, the next successful invocation
\* writes a snapshot and the new tip's tree does not hold that file.
C9_DeletionRecorded ==
  (inv = "ok" /\ pre.sinceLast.ok /\ Len(pre.sinceLast.edits) = 1) =>
    LET e == pre.sinceLast.edits[1] IN
      (e.op = "delete"
         /\ e.p \in TreePaths(Tree(pre.refs[NameOf(e.w)][WmemBranch(wd[e.w].branch)])))
        => /\ NewOfKind(NameOf(e.w), "snapshot") # {}
           /\ e.p \notin TreePaths(Tree(TipOf(e.w)))

\* ---------------------------------------------------------------- claim C10
\* C10: when, after a successful invocation, exactly one workdir gets an
\* uncommitted filesystem change (a file written or deleted, a directory
\* removed; "git status" reports it) while the others have none and nothing
\* else happens, the next successful invocation advances
\* that workdir's wmem-br/<B> by exactly one commit whose tree holds the
\* change, and leaves every wmem-br/* ref of the other bare stores as it was.
C10_OnlyChangedWorkdirAdvances ==
  (inv = "ok" /\ pre.sinceLast.ok /\ Len(pre.sinceLast.edits) = 1) =>
    LET e == pre.sinceLast.edits[1] IN
      (/\ e.op \in {"write", "delete", "rmdir"}
       /\ ~StatusClean(e.w)
       /\ \A w \in Workdirs \ {e.w} : StatusClean(w)) =>
        /\ TipOf(e.w) \in NewCommits
        /\ commits[TipOf(e.w)].parents =
             <<pre.refs[NameOf(e.w)][WmemBranch(wd[e.w].branch)]>>
        /\ SameFiles(Tree(TipOf(e.w)), createTreeFromCurrentState(wd[e.w].fs))
        /\ \A w \in Workdirs \ {e.w} : bare[NameOf(w)].refs = pre.refs[NameOf(w)]

\* ---------------------------------------------------------------- claim C11
\* the workdir had no bare store when the invocation started
FirstCommitOf(w) ==
  /\ pre.objs[Base(w)] = {}
  /\ \A r \in RefNames : pre.refs[Base(w)][r] = NoCommit

\* C11: when a workdir whose working tree is clean (git status reports
\* nothing) is committed for the first time, its bare store is created with
\* wmem-br/<branch> pointing at the workdir's own HEAD commit, and no snapshot
\* commit and no merge commit is written into it.
C11_CleanFirstCommit ==
  \A w \in Workdirs :
    (inv = "ok" /\ FirstCommitOf(w) /\ NameOf(w) = Base(w) /\ StatusClean(w)) =>
      /\ bare[NameOf(w)].exists
      /\ TipOf(w) = wd[w].head
      /\ NewOfKind(NameOf(w), "snapshot") = {}
      /\ NewOfKind(NameOf(w), "merge") = {}

\* ---------------------------------------------------------------- claim C12
\* C12: meta-branches accumulate: when the bare store has no wmem-br/B for the
\* workdir's branch B, step 2 creates it pointing at the workdir's HEAD
\* commit; when wmem-br/B exists step 2 does not move it; and no step moves or
\* deletes a wmem-br/<other> ref that belongs to a different original branch.
C12_MetaBranchesAccumulate ==
  [][\A w \in Workdirs :
       /\ (inv = "phaseA" /\ pc[w] = "s2" /\ pc'[w] = "s3") =>
            LET n == check[w].name
                r == WmemBranch(wd[w].branch)
            IN bare'[n].refs[r] =
                 IF bare[n].refs[r] = NoCommit THEN wd[w].head ELSE bare[n].refs[r]
       /\ \A r \in RefNames \ {WmemBranch(wd[w].branch), "wmem-br/head"} :
            bare'[Base(w)].refs[r] = bare[Base(w)].refs[r]]_vars

\* after a successful invocation the store holds the meta-branch of the branch
\* the workdir had before and the one this invocation created for its new branch
C12_Witness ==
  \E w \in Workdirs :
    /\ inv = "ok"
    /\ wd[w].branch = "feat"
    /\ pre.refs[NameOf(w)]["wmem-br/feat"] = NoCommit
    /\ pre.refs[NameOf(w)]["wmem-br/main"] # NoCommit
    /\ bare[NameOf(w)].refs["wmem-br/feat"] = wd[w].head
    /\ bare[NameOf(w)].refs["wmem-br/main"] = pre.refs[NameOf(w)]["wmem-br/main"]

\* ---------------------------------------------------------------- claim C13
\* a step of a commit invocation: its start, or any step while it runs
InvocationStep == nInv' # nInv \/ inv \in {"phaseA", "phaseB"}

\* C13: a commit invocation never modifies a workdir: no step of it, in a run
\* that succeeds or in one that fails, changes the workdir's files, mtimes,
\* branches or HEAD, so Git's own status in the workdir reports the same as
\* before.
C13_WorkdirReadOnly ==
  [][InvocationStep =>
       /\ wd' = wd
       /\ \A w \in Workdirs :
            GitWorktreeTree(wd'[w].fs) = GitWorktreeTree(wd[w].fs)]_vars

\* an invocation has snapshotted a workdir whose own status still reports
\* the uncommitted deletion
C13_Witness ==
  \E w \in Workdirs :
    /\ inv = "ok"
    /\ NewOfKind(NameOf(w), "snapshot") # {}
    /\ ~StatusClean(w)
    /\ ~FileExists(wd[w].fs, <<"a">>)

\* ---------------------------------------------------------------- claim C22
\* the workdirs that received a snapshot commit in the invocation
Snapshotted == {w \in Workdirs : NewOfKind(NameOf(w), "snapshot") # {}}

\* the bullets of the newest meta-repository commit that name the workdir
BulletsOf(w) ==
  {i \in DOMAIN metaLog[Len(metaLog)].bullets :
     metaLog[Len(metaLog)].bullets[i].name = NameOf(w)}

\* C22: the body of the summary commit an invocation writes has exactly one
\* bullet `name` `branch` `short-hash` for each workdir that received a
\* snapshot commit in the invocation, the short hash being that of the
\* commit the workdir's wmem-br/<branch> and wmem-br/head point to when the
\* invocation ends, and no bullet for any other workdir; when no workdir
\* received a snapshot the body has the metadata-only line instead.
C22_SummaryBullets ==
  (inv = "ok" /\ NewMeta # {}) =>
    LET summary == metaLog[Len(metaLog)] IN
      /\ \A w \in Workdirs :
           Cardinality(BulletsOf(w)) = IF w \in Snapshotted THEN 1 ELSE 0
      /\ \A w \in Snapshotted : \A i \in BulletsOf(w) :
           /\ summary.bullets[i].branch = wd[w].branch
           /\ summary.bullets[i].shortHash = TipOf(w)
           /\ summary.bullets[i].shortHash = bare[NameOf(w)].refs["wmem-br/head"]
      /\ Len(summary.bullets) = Cardinality(Snapshotted)
      /\ summary.metaOnly <=> Snapshotted = {}

\* one invocation has snapshotted one workdir and left the other alone, and
\* its summary has the one bullet; the invocation before wrote a summary with
\* the metadata-only line
C22_Witness ==
  /\ inv = "ok" /\ NewMeta # {}
  /\ Cardinality(Snapshotted) = 1
  /\ Len(metaLog[Len(metaLog)].bullets) = 1
  /\ \E i \in DOMAIN metaLog : metaLog[i].kind = "summary" /\ metaLog[i].metaOnly

\* ---------------------------------------------------------------- claim C23
\* a step of a Phase A task (steps 1 to 6 of some workdir)
PhaseAStep == inv = "phaseA" /\ inv' = "phaseA"

\* C23: during Phase A no bare store is mutated beyond the creation of a
\* missing wmem-br/<branch> in step 2 and the assignment of the symbolic HEAD
\* in step 3: no step of a Phase A task writes a commit object, and none moves
\* a wmem-br/* ref that exists.
C23_PhaseAWritesNothing ==
  [][PhaseAStep =>
       /\ commits' = commits
       /\ \A n \in Names : \A r \in RefNames :
            bare[n].refs[r] # NoCommit => bare'[n].refs[r] = bare[n].refs[r]]_vars

\* ---------------------------------------------------------------- claim C24
\* the step writes a snapshot commit
SnapshotWritten ==
  /\ Len(commits') > Len(commits)
  /\ commits'[Len(commits')].kind = "snapshot"

\* C24: the join point: a snapshot commit is written only when the Phase A
\* task of every configured workdir has finished, with its verdict or its
\* error known; Phase B starts only then; and a step of Phase B runs steps 7
\* to 9 for one workdir only, the next one in configuration order, leaving
\* every other bare store as it is.
C24_JoinPoint ==
  [][/\ (inv = "phaseA" /\ inv' = "phaseB") =>
          \A w \in Workdirs : pc[w] = "done"
     /\ SnapshotWritten =>
          /\ inv = "phaseB"
          /\ \A w \in Workdirs : pc[w] = "done"
          /\ \A i \in 1..(idx - 1) : results[i].name = NameOf(WorkdirPaths[i])
          /\ Len(results) = idx - 1
          /\ idx' = idx + 1
          /\ Len(commits') = Len(commits) + 1
          /\ Len(commits') \in bare'[NameOf(WorkdirPaths[idx])].objs
          /\ results'[idx].name = NameOf(WorkdirPaths[idx])
          /\ \A n \in Names \ {NameOf(WorkdirPaths[idx])} : bare'[n] = bare[n]]_vars

\* an invocation has snapshotted both workdirs, the first configured one first
C24_Witness ==
  /\ inv = "ok"
  /\ Snapshotted = Workdirs
  /\ \A c1 \in NewOfKind(NameOf(WorkdirPaths[1]), "snapshot") :
       \A c2 \in NewOfKind(NameOf(WorkdirPaths[2]), "snapshot") : c1 < c2

\* ---------------------------------------------------------------- claim C25
\* the writes of steps 5, 8 and 9 in a store's log
OrderedWrites(n) == {i \in DOMAIN bare[n].log : bare[n].log[i].step \in {5, 8, 9}}

\* C25: within one bare store and one invocation the refs are written in
\* this order: in step 5, if a merge is needed, wmem-br/<branch> and then
\* wmem-br/head are set to the merge commit; in step 8 wmem-br/<branch> is
\* set to the snapshot commit; in step 9 wmem-br/head is set to the snapshot
\* commit; and each of these refs is written after the commit object it
\* names has been stored.
C25_RefWriteOrder ==
  \A n \in Names :
    LET L == bare[n].log IN
      /\ \A i, j \in OrderedWrites(n) : i < j => L[i].step <= L[j].step
      /\ \A i, j \in OrderedWrites(n) :
           (L[i].op = "ref" /\ L[j].op = "ref" /\ L[i].step = L[j].step /\ i < j) =>
             (L[i].ref # "wmem-br/head" /\ L[j].ref = "wmem-br/head")
      /\ \A i \in OrderedWrites(n) :
           L[i].op = "ref" =>
             /\ \E k \in 1..(i - 1) : L[k].op = "commit" /\ L[k].c = L[i].c
             /\ commits[L[i].c].kind = (IF L[i].step = 5 THEN "merge" ELSE "snapshot")
             /\ L[i].step = 8 => L[i].ref # "wmem-br/head"
             /\ L[i].step = 9 => L[i].ref = "wmem-br/head"
             /\ L[i].ref # "wmem-br/head" => L[i].ref = bare[n].HEAD

\* an invocation has written a merge commit and then a snapshot commit into
\* one store: two ref writes of step 5, one of step 8, one of step 9
C25_Witness ==
  \E n \in Names :
    /\ inv = "ok"
    /\ {bare[n].log[i].step : i \in OrderedWrites(n)} = {5, 8, 9}
    /\ Cardinality({i \in OrderedWrites(n) : bare[n].log[i].op = "ref"}) = 4
    /\ bare[n].refs["wmem-br/head"] \in NewOfKind(n, "snapshot")

\* ---------------------------------------------------------------- claim C26
\* when the invocation started, the workdir's HEAD was not merged into the
\* wmem branch of its current branch
HeadUnmergedAtStart(w) ==
  LET T == pre.refs[NameOf(w)][WmemBranch(wd[w].branch)] IN
    /\ wd[w].headOK
    /\ T # NoCommit
    /\ ~isCommitMerged(wd[w].head, T)

\* C26: when a workdir has a new HEAD commit that is not merged into
\* wmem-br/<branch> and also uncommitted changes in its working tree, whatever
\* the modification times of the changed files, one invocation writes the
\* merge commit M and then a snapshot commit S whose only parent is M and
\* whose tree is the full rebuild of the files on disk, and leaves
\* wmem-br/<branch> and wmem-br/head at S.
C26_MergeThenSnapshot ==
  \A w \in Workdirs :
    (inv = "ok" /\ HeadUnmergedAtStart(w) /\ ~StatusClean(w)) =>
      \E M \in NewOfKind(NameOf(w), "merge"), S \in NewOfKind(NameOf(w), "snapshot") :
        /\ M < S
        /\ commits[S].parents = <<M>>
        /\ commits[S].tree = createTreeFromCurrentState(wd[w].fs)
        /\ TipOf(w) = S
        /\ bare[NameOf(w)].refs["wmem-br/head"] = S

\* ------------------------------------------------------- claims C28 and C29
\* the tip step 6 compares with
Step6Tip(w) == bare[check[w].name].refs[WmemBranch(check[w].branch)]

\* the timestamp tier did not end the check
PastTimestampTier(w) ==
  hasFilesNewerThanLastWmemCommit(w, check[w].name, Step6Tip(w)).changes

\* the working-tree-status tier ends the check with "unchanged"
StatusTierUnchanged(w) ==
  /\ PastTimestampTier(w)
  /\ ~hasWorkingDirectoryChanges(w)
  /\ isHeadUnchangedSinceLastWmemCommit(w, Step6Tip(w))

\* the check reaches the touched-files tier and it answers "unchanged"
TouchedTierUnchanged(w) ==
  /\ PastTimestampTier(w)
  /\ ~StatusTierUnchanged(w)
  /\ MergeCommitsOf(wd[w].head) # {}
  /\ ~FullTreeCheck(w, Step6Tip(w))

\* C28: step 6 answers "unchanged" in the working-tree-status tier only when
\* git status is clean and HEAD is an ancestor of the wmem tip, and the tip's
\* tree is then the tree of the files on disk, also when the tip is an
\* earlier snapshot of uncommitted files that have since been reverted.
C28_StatusTierSound ==
  [][\A w \in Workdirs :
       (pc[w] = "s6" /\ Step6(w) /\ StatusTierUnchanged(w)) =>
         /\ ~check'[w].modified
         /\ StatusClean(w)
         /\ isCommitMerged(wd[w].head, Step6Tip(w))
         /\ Tree(Step6Tip(w)) = createTreeFromFilesystem(wd[w].fs, <<>>)]_vars

\* C29: step 6 answers "unchanged" in the touched-files tier only when the
\* tree of the files on disk is the tip's tree: with a merge commit in the
\* workdir's history an uncommitted change is still reported, also when the
\* diff from that merge commit to HEAD is empty or leaves out the changed file.
C29_TouchedTierSound ==
  [][\A w \in Workdirs :
       (pc[w] = "s6" /\ Step6(w) /\ TouchedTierUnchanged(w)) =>
         /\ ~check'[w].modified
         /\ Tree(Step6Tip(w)) = createTreeFromFilesystem(wd[w].fs, <<>>)]_vars

\* ---------------------------------------------------------------- claim C30
\* the root directory's mtime is later than the checkpoint, or there is none
RootMtimeAdvanced(w) ==
  \/ checkpoint[Base(w)] = NoCheckpoint
  \/ wd[w].fs.rootMt > checkpoint[Base(w)]

\* what comparing the tip's file list with the files on disk finds
ListsShowDeletion(w) ==
  (TreePaths(Tree(Step6Tip(w))) \ getFileListInDirectory(wd[w].fs)) # {}

\* step 6 runs deletion detection: no file is newer than the tip
DeletionDetectionRuns(w) ==
  /\ pc[w] = "s6"
  /\ Step6(w)
  /\ ~hasFilesNewerThan(wd[w].fs, commits[Step6Tip(w)].time)

\* C30: deletion detection answers "no deletions" without comparing file
\* lists only when the root directory's mtime has not advanced past the
\* checkpoint; when it has, or when there is no checkpoint, the answer is what
\* the comparison of the lists finds, however old the root mtime is, and the
\* checkpoint moves only together with such a comparison.
C30_DeletionDetection ==
  [][\A w \in Workdirs :
       DeletionDetectionRuns(w) =>
         LET d == hasFilesDeletedUsingDirectoryMtime(w, check[w].name, Step6Tip(w))
         IN /\ checkpoint'[Base(w)] = d.cp
            /\ RootMtimeAdvanced(w) => d.deleted = ListsShowDeletion(w)
            /\ ~RootMtimeAdvanced(w) => ~d.deleted /\ d.cp = checkpoint[Base(w)]]_vars

\* C30 for a root directory changed within the last hour
C30_RecentRoot ==
  [][\A w \in Workdirs :
       (DeletionDetectionRuns(w) /\ ~(wd[w].fs.rootMt < now - OneHourSeconds)) =>
         LET d == hasFilesDeletedUsingDirectoryMtime(w, check[w].name, Step6Tip(w))
         IN /\ checkpoint'[Base(w)] = d.cp
            /\ RootMtimeAdvanced(w) => d.deleted = ListsShowDeletion(w)
            /\ ~RootMtimeAdvanced(w) => ~d.deleted /\ d.cp = checkpoint[Base(w)]]_vars

\* ---------------------------------------------------------------- claim C32
\* C32: every ref of a bare store names a commit that is in the store with
\* all its ancestors, at every point of an invocation: when step 2 creates
\* wmem-br/<branch> for a branch first seen after the store was created, the
\* workdir's HEAD commit has been fetched already.
C32_RefsNameStoredCommits ==
  \A n \in Names : \A r \in DOMAIN bare[n].refs :
    bare[n].refs[r] # NoCommit => Ancestors(bare[n].refs[r]) \subseteq bare[n].objs

\* C32 at the points where no task is between its step 2 and its step 4
C32_AfterFetch ==
  (\A w \in Workdirs : pc[w] \notin {"s3", "s4"}) => C32_RefsNameStoredCommits

\* ---------------------------------------------------------------- claim C33
\* C33: a change that Phase A detected and that was not recorded because the
\* invocation aborted is detected again by the next invocation (the workdir
\* untouched in between): the checkpoint written by the aborted invocation
\* does not hide it.
C33_DetectedAgain ==
  [][\A w \in pre.lost :
       (pc[w] = "s6" /\ Step6(w)) => check'[w].modified]_vars

\* C33 for changes of file content: a file written before the aborted
\* invocation is found newer than the tip again
C33_NewerFilesDetectedAgain ==
  [][\A w \in pre.lost :
       (pc[w] = "s6" /\ Step6(w)
          /\ hasFilesNewerThan(wd[w].fs, commits[Step6Tip(w)].time)
          /\ MergeCommitsOf(wd[w].head) = {})
         => check'[w].modified]_vars

\* ---------------------------------------------------------------- claim C35
\* the meta-branches of a bare store: wmem-br/<branch>, one per workdir branch
MetaBranches == {WmemBranch(b) : b \in Branches}

\* C35: meta-branches only move forward: a meta-branch that exists is never
\* deleted, and every step that moves it moves it to a commit whose first
\* parent is the commit it named before, so that the previous tip stays an
\* ancestor of the new tip.
C35_MetaBranchesForward ==
  [][\A n \in Names : \A r \in MetaBranches :
       LET old == bare[n].refs[r]
           new == bare'[n].refs[r]
       IN (old # NoCommit /\ new # old) =>
            /\ new # NoCommit
            /\ new \in DOMAIN commits'
            /\ commits'[new].parents # <<>>
            /\ commits'[new].parents[1] = old]_vars

\* one invocation has moved a meta-branch twice, to a merge commit and on to
\* a snapshot commit, and the tip it had before is an ancestor of the new tip
C35_Witness ==
  \E n \in Names : \E r \in MetaBranches :
    /\ inv = "ok"
    /\ pre.refs[n][r] # NoCommit
    /\ bare[n].refs[r] \in NewOfKind(n, "snapshot")
    /\ commits[bare[n].refs[r]].parents[1] \in NewOfKind(n, "merge")
    /\ commits[commits[bare[n].refs[r]].parents[1]].parents[1] = pre.refs[n][r]
    /\ IsAncestor(pre.refs[n][r], bare[n].refs[r])

\* ---------------------------------------------------------------- claim C37
\* C37: no empty snapshots: every snapshot commit that Phase B writes has a
\* tree that differs from the tree of its parent, the tip of wmem-br/<branch>
\* after step 5.
C37_NoEmptySnapshots ==
  [][(inv = "phaseB" /\ Len(commits') = Len(commits) + 1) =>
       LET s == commits'[Len(commits')] IN
         /\ s.kind = "snapshot"
         /\ Len(s.parents) = 1
         /\ s.tree # Tree(s.parents[1])]_vars

\* ---------------------------------------------------------------- claim C38
\* the workdir names a map can hold before the name of w is generated: the
\* base name of w and its first suffixed forms, held by any of them or by none
TakenNames(w) == SUBSET {Base(w), Base(w) \o "-2", Base(w) \o "-3"}

SuffixSearchHalts ==
  \A w \in Workdirs : \A taken \in TakenNames(w) :
    generateWorkdirName(w, [n \in taken |-> w]) \notin taken

Running == inv \in {"phaseA", "phaseB"}
Ended == inv \in {"ok", "err"}

\* C38: every commit invocation terminates with success or an error: every
\* Phase A task, failed or not, finishes and the join is passed, no task
\* waits forever for the reader-writer lock of the shared cache, and the
\* suffix search of workdir-name generation halts with a name not in the map.
C38_Terminates ==
  /\ []SuffixSearchHalts
  /\ \A w \in Workdirs : (inv = "phaseA" /\ pc[w] # "done") ~> (pc[w] = "done")
  /\ (inv = "phaseA") ~> (inv = "phaseB")
  /\ Running ~> Ended

\* in a running Phase A one task is inside a critical section as the writer,
\* the other one waits for a section of its own, and no task has failed
C38_Witness ==
  /\ inv = "phaseA"
  /\ \E w \in Workdirs, o \in Workdirs :
       /\ w # o
       /\ muHeldBy(w, "w")
       /\ \E k \in 0..(MaxSections - 1) :
            pc[o] = Waiting(k) /\ k < Len(cacheLockSections(o))

\* ======================================================================
\* The configuration side: CommitWmem from isWmemRepo to readCommitInfo, with
\* initRepos one configured path at a time.  A path, a directory and a workdir
\* name are strings, written as the sequence of their characters.
\* ======================================================================

\* ------------------------------------------------------------------ bounds
MaxPaths == 2

\* ------------------------------------------------------------ input domains
\* the directory the command runs in (the meta-repository): "/r/m"
Cwd == <<"/", "r", "/", "m">>

\* what is on disk: "repo" is a directory with a .git entry
DiskEntries ==
  { [path |-> <<"/", "r">>, kind |-> "dir"],
    [path |-> <<"/", "r", "/", "m">>, kind |-> "repo"],
    [path |-> <<"/", "r", "/", "m", "/", "s">>, kind |-> "repo"],
    [path |-> <<"/", "r", "/", "m", "2">>, kind |-> "repo"],
    [path |-> <<"/", "r", "/", "a">>, kind |-> "repo"],
    [path |-> <<"/", "r", "/", "b">>, kind |-> "dir"],
    [path |-> <<"/", "r", "/", "b", "/", "a">>, kind |-> "repo"],
    [path |-> <<"/", "r", "/", "c">>, kind |-> "dir"],
    [path |-> <<"/", "r", "/", "c", "/", "a">>, kind |-> "repo"],
    [path |-> <<"/", "r", "/", "d">>, kind |-> "dir"],
    [path |-> <<"/", "r", "/", "f">>, kind |-> "file"],
    [path |-> <<"/">>, kind |-> "dir"] }

\* lines a user may write into md/commit-workdir-paths
PathInputs ==
  { <<".", ".", "/", "a">>,
    <<".", ".", "/", "a", "/">>,
    <<".", ".", "/", "b", "/", "a">>,
    <<".", ".", "/", "c", "/", "a">>,
    <<".", ".", "/", "m", "2">>,
    <<".", ".", "/", "m">>,
    <<".", ".", "/", "m", "/", "s">>,
    <<".", ".", "/", "f">>,
    <<".", ".", "/", "d">>,
    <<".", ".", "/", "n">>,
    <<"/", "r", "/", "a">>,
    <<".">>,
    <<".", "/", "s">>,
    <<"a">>,
    <<".", ".", "/", "b", "/", ".", ".", "/", "a">> }

SignatureFiles == {"missing", "empty", "set"}

\* ------------------------------------------------- strings and path/filepath
\* strings.HasPrefix
HasPrefix(str, prefix) ==
  Len(str) >= Len(prefix) /\ SubSeq(str, 1, Len(prefix)) = prefix

\* strings.Split(str, "/"): n separators give n + 1 segments, empty ones included
RECURSIVE SplitFrom(_, _, _)
SplitFrom(str, i, cur) ==
  IF i > Len(str) THEN <<cur>>
  ELSE IF str[i] = "/" THEN <<cur>> \o SplitFrom(str, i + 1, <<>>)
  ELSE SplitFrom(str, i + 1, Append(cur, str[i]))

Split(str) == SplitFrom(str, 1, <<>>)

\* strings.Join(segments, "/")
RECURSIVE JoinSegments(_)
JoinSegments(segs) ==
  IF segs = <<>> THEN <<>>
  ELSE IF Len(segs) = 1 THEN segs[1]
  ELSE segs[1] \o <<"/">> \o JoinSegments(Tail(segs))

\* filepath.IsAbs
IsAbs(str) == Len(str) > 0 /\ str[1] = "/"

DotDot == <<".", ".">>

\* the segment stack of filepath.Clean: "" and "." dropped, ".." pops a name,
\* is dropped at the root and is kept at the front of a relative path
RECURSIVE CleanSegments(_, _, _)
CleanSegments(segs, out, rooted) ==
  IF segs = <<>> THEN out
  ELSE LET x == Head(segs) IN
    IF x = <<>> \/ x = <<".">> THEN CleanSegments(Tail(segs), out, rooted)
    ELSE IF x = DotDot
      THEN IF out # <<>> /\ out[Len(out)] # DotDot
             THEN CleanSegments(Tail(segs), SubSeq(out, 1, Len(out) - 1), rooted)
           ELSE IF rooted THEN CleanSegments(Tail(segs), out, rooted)
           ELSE CleanSegments(Tail(segs), Append(out, x), rooted)
    ELSE CleanSegments(Tail(segs), Append(out, x), rooted)

\* filepath.Clean
Clean(str) ==
  LET out == JoinSegments(CleanSegments(Split(str), <<>>, IsAbs(str)))
  IN IF IsAbs(str) THEN <<"/">> \o out
     ELSE IF out = <<>> THEN <<".">> ELSE out

\* filepath.Abs
Abs(str) == IF IsAbs(str) THEN Clean(str) ELSE Clean(Cwd \o <<"/">> \o str)

\* filepath.Join(dir, ".git")
JoinGit(dir) == Clean(dir \o <<"/", ".", "g", "i", "t">>)

RECURSIVE StripTrailingSlashes(_)
StripTrailingSlashes(str) ==
  IF str # <<>> /\ str[Len(str)] = "/"
    THEN StripTrailingSlashes(SubSeq(str, 1, Len(str) - 1))
    ELSE str

\* filepath.Base
filepathBase(str) ==
  IF str = <<>> THEN <<".">>
  ELSE LET t == StripTrailingSlashes(str) IN
    IF t = <<>> THEN <<"/">>
    ELSE LET segs == Split(t) IN segs[Len(segs)]

\* os.Stat: the kind of the entry at an absolute path, "missing" if none;
\* the .git entry of a repository is a directory
Stat(abs) ==
  IF \E e \in DiskEntries : e.path = abs
    THEN (CHOOSE e \in DiskEntries : e.path = abs).kind
  ELSE IF \E e \in DiskEntries : e.kind = "repo" /\ JoinGit(e.path) = abs
    THEN "dir"
  ELSE "missing"

\* ------------------------------------------------------ validateWorkdirPath
\* the segment loop: ".." after a segment that is neither ".." nor empty
RECURSIVE TraversalFrom(_, _)
TraversalFrom(segs, foundNonDotDot) ==
  IF segs = <<>> THEN FALSE
  ELSE IF Head(segs) = DotDot
    THEN foundNonDotDot \/ TraversalFrom(Tail(segs), foundNonDotDot)
  ELSE TraversalFrom(Tail(segs), foundNonDotDot \/ Head(segs) # <<>>)

\* validateWorkdirPath: the error, "" when the path is accepted
validateWorkdirPath(workdirPath) ==
  IF IsAbs(workdirPath) THEN "Absolute paths not allowed"
  ELSE IF workdirPath = <<".">> \/ HasPrefix(workdirPath, <<".", "/">>)
    THEN "wmem-repo paths not allowed"
  ELSE IF ~HasPrefix(workdirPath, <<".", ".", "/">>) THEN "Must start with ../"
  ELSE IF TraversalFrom(Split(workdirPath), FALSE) THEN "path traversal not allowed"
  ELSE LET absPath == Abs(workdirPath) IN
    IF Stat(absPath) = "missing" THEN "workdir path not accessible"
    ELSE IF Stat(absPath) = "file" THEN "workdir path is not a directory"
    ELSE IF Stat(JoinGit(absPath)) = "missing" THEN "workdir is not a git repository"
    ELSE IF HasPrefix(absPath, Cwd) THEN "wmem-repo paths not allowed"
    ELSE ""

\* ------------------------------------------------------------- workdir names
\* FindWorkdirName, comparing the cleaned forms
FindWorkdirNameClean(workdirPath, m) ==
  IF \E n \in DOMAIN m : Clean(m[n]) = Clean(workdirPath)
    THEN [name |-> CHOOSE n \in DOMAIN m : Clean(m[n]) = Clean(workdirPath),
          exists |-> TRUE]
    ELSE [name |-> <<>>, exists |-> FALSE]

\* fmt.Sprintf("%d", n)
RECURSIVE Decimal(_)
Decimal(n) ==
  LET digit == <<"0", "1", "2", "3", "4", "5", "6", "7", "8", "9">>[(n % 10) + 1]
  IN IF n < 10 THEN <<digit>> ELSE Append(Decimal(n \div 10), digit)

\* the counter loop of generateWorkdirName
RECURSIVE CounterLoop(_, _, _)
CounterLoop(baseName, counter, m) ==
  LET candidate == baseName \o <<"-">> \o Decimal(counter)
  IN IF candidate \in DOMAIN m THEN CounterLoop(baseName, counter + 1, m)
     ELSE candidate

\* a counter loop that starts one too high
generateWorkdirNameClean_From3(workdirPath, m) ==
  IF filepathBase(workdirPath) \in DOMAIN m
    THEN CounterLoop(filepathBase(workdirPath), 3, m)
    ELSE filepathBase(workdirPath)

\* generateWorkdirName
generateWorkdirNameClean(workdirPath, m) ==
  IF filepathBase(workdirPath) \in DOMAIN m
    THEN CounterLoop(filepathBase(workdirPath), 2, m)
    ELSE filepathBase(workdirPath)

\* the map with one more entry
MapWith(m, n, path) == [x \in DOMAIN m \cup {n} |-> IF x = n THEN path ELSE m[x]]

\* getCacheFilePath: <meta>/cache/git-wmem-cache-<filepath.Base(path)>.json
getCacheFilePath(workdirPath) ==
  Cwd \o <<"/", "cache", "/", "git-wmem-cache-">> \o filepathBase(workdirPath)
      \o <<".json">>

\* --------------------------------------------------- editing the configuration
RunIdle == run.pc \in {"idle", "done"}

EditConfig(c) ==
  /\ RunIdle
  /\ c # config
  /\ config' = c
  /\ run' = NoRun
  /\ runPre' = NoRunPre
  /\ UNCHANGED <<mapFile, repoDirs>>

\* a line is added to md/commit-workdir-paths
AddPath(path) ==
  /\ Len(config.paths) < MaxPaths
  /\ EditConfig([config EXCEPT !.paths = Append(@, path)])

\* a line is removed from md/commit-workdir-paths
RemovePath(i) ==
  /\ i \in DOMAIN config.paths
  /\ EditConfig([config EXCEPT
       !.paths = SubSeq(@, 1, i - 1) \o SubSeq(@, i + 1, Len(@))])

\* md/commit/author is written, emptied or removed
SetAuthor(v) == EditConfig([config EXCEPT !.author = v])

\* md/commit/committer is written, emptied or removed
SetCommitter(v) == EditConfig([config EXCEPT !.committer = v])

\* the .git-wmem marker is removed or restored
SetMarker(present) == EditConfig([config EXCEPT !.marker = present])

\* ------------------------------------------------------------- the invocation
RunEnds(error, wrote) ==
  run' = [run EXCEPT !.pc = "done", !.err = error, !.wrote = wrote]

\* readWorkdirMap
readWorkdirMap == mapFile

\* CommitWmem: isWmemRepo, readWorkdirPaths, the empty-list check, and the
\* first statement of initRepos
RunStart ==
  /\ RunIdle
  /\ runPre' = [map |-> mapFile, repos |-> repoDirs]
  /\ IF ~config.marker
       THEN run' = [NoRun EXCEPT !.pc = "done", !.err = "not in a wmem repository"]
     ELSE IF Len(config.paths) = 0
       THEN run' = [NoRun EXCEPT !.pc = "done", !.err = "No workdirs configured"]
     ELSE run' = [NoRun EXCEPT !.pc = "init", !.i = 1, !.mem = readWorkdirMap]
  /\ UNCHANGED <<config, mapFile, repoDirs>>

\* initRepos: one pass of the loop over the configured paths
InitReposStep ==
  /\ run.pc = "init"
  /\ run.i <= Len(config.paths)
  /\ LET workdirPath == config.paths[run.i]
         invalid == validateWorkdirPath(workdirPath)
         workdirName == generateWorkdirNameClean(workdirPath, run.mem)
     IN IF invalid # ""
          THEN RunEnds(invalid, FALSE) /\ UNCHANGED repoDirs
        ELSE IF FindWorkdirNameClean(workdirPath, run.mem).exists
          THEN run' = [run EXCEPT !.i = @ + 1] /\ UNCHANGED repoDirs
        ELSE IF workdirName \in repoDirs
          THEN RunEnds("failed to create bare repo", FALSE) /\ UNCHANGED repoDirs
        ELSE /\ repoDirs' = repoDirs \cup {workdirName}
             /\ run' = [run EXCEPT !.i = @ + 1,
                                   !.mem = MapWith(@, workdirName, Clean(workdirPath))]
  /\ UNCHANGED <<config, mapFile, runPre>>

\* a save that keeps only the entries of the configured paths
SaveMap_ConfiguredOnly ==
  /\ run.pc = "init"
  /\ run.i > Len(config.paths)
  /\ mapFile' = LET keep == {n \in DOMAIN run.mem :
                               \E i \in DOMAIN config.paths :
                                 Clean(config.paths[i]) = run.mem[n]}
                 IN [n \in keep |-> run.mem[n]]
  /\ run' = [run EXCEPT !.pc = "commitAll"]
  /\ UNCHANGED <<config, repoDirs, runPre>>

\* initRepos: saveWorkdirMap after the loop
SaveMap ==
  /\ run.pc = "init"
  /\ run.i > Len(config.paths)
  /\ mapFile' = run.mem
  /\ run' = [run EXCEPT !.pc = "commitAll"]
  /\ UNCHANGED <<config, repoDirs, runPre>>

\* parseSignature fails on a string without " <"
SignaturesParse == config.author = "set" /\ config.committer = "set"

\* commitAll: readCommitInfo fails when a signature file cannot be read; an
\* empty one is read without error and fails in parseSignature, when the
\* first commit is about to be written.  Whether a commit is due depends on
\* the workdirs; a map changed by this invocation always calls for the
\* summary commit.
CommitAllStep ==
  /\ run.pc = "commitAll"
  /\ IF config.author = "missing" \/ config.committer = "missing"
       THEN RunEnds("failed to read commit info", FALSE)
       ELSE \E commitDue \in BOOLEAN :
              /\ (mapFile # runPre.map) => commitDue
              /\ IF ~commitDue THEN RunEnds("", FALSE)
                 ELSE IF SignaturesParse THEN RunEnds("", TRUE)
                 ELSE RunEnds("invalid signature format", FALSE)
  /\ UNCHANGED <<config, mapFile, repoDirs, runPre>>

\* runParallelWorkdirChecks: one Phase A task for every line of
\* md/commit-workdir-paths; the task of line i works on the bare store that
\* FindWorkdirName gives for the line's path (checkWorkdirInParallel, step 1)
runParallelWorkdirChecks ==
  [i \in DOMAIN config.paths |-> FindWorkdirNameClean(config.paths[i], mapFile).name]

ConfigInit == Init /\ now = 0

ConfigNext ==
  \/ \E path \in PathInputs : AddPath(path) /\ UNCHANGED <<mainVars, treeVars>>
  \/ \E i \in 1..MaxPaths : RemovePath(i) /\ UNCHANGED <<mainVars, treeVars>>
  \/ \E v \in SignatureFiles : SetAuthor(v) /\ UNCHANGED <<mainVars, treeVars>>
  \/ \E v \in SignatureFiles : SetCommitter(v) /\ UNCHANGED <<mainVars, treeVars>>
  \/ \E present \in BOOLEAN : SetMarker(present) /\ UNCHANGED <<mainVars, treeVars>>
  \/ RunStart /\ UNCHANGED <<mainVars, treeVars>>
  \/ InitReposStep /\ UNCHANGED <<mainVars, treeVars>>
  \/ SaveMap /\ UNCHANGED <<mainVars, treeVars>>
  \/ CommitAllStep /\ UNCHANGED <<mainVars, treeVars>>

ConfigSpec == ConfigInit /\ [][ConfigNext]_vars

\* ---------------------------------------------------------------- claim C14
\* the path is a line of md/commit-workdir-paths, in any spelling
Configured(path) ==
  \E i \in DOMAIN config.paths : Clean(config.paths[i]) = Clean(path)

\* C14: workdir-map.json is append-only: no step removes a (name, path) pair
\* from the map or changes the path of a name, also when the path is no
\* longer a line of md/commit-workdir-paths.
C14_MapAppendOnly ==
  [][\A n \in DOMAIN mapFile :
       n \in DOMAIN mapFile' /\ mapFile'[n] = mapFile[n]]_vars

\* a successful invocation has added a pair and kept the pair of a path
\* that is not configured any more
C14_Witness ==
  /\ run.pc = "done" /\ run.err = ""
  /\ mapFile # runPre.map
  /\ \E n \in DOMAIN runPre.map :
       /\ ~Configured(runPre.map[n])
       /\ n \in DOMAIN mapFile /\ mapFile[n] = runPre.map[n]

\* ---------------------------------------------------------------- claim C15
\* no cleaned path is recorded under two names
OneNamePerPath(m) ==
  \A n1, n2 \in DOMAIN m : Clean(m[n1]) = Clean(m[n2]) => n1 = n2

\* <base>-k
Suffixed(baseName, k) == baseName \o <<"-">> \o Decimal(k)

\* C15: workdir names are unique and deterministic: the map, in memory and
\* on disk, starts empty and no step that changes it makes it record a
\* cleaned path under two names, and a path that is
\* added to the map gets its last segment as name when that is unused, and
\* otherwise <base>-k for the smallest k >= 2 with <base>-k unused.
C15_UniqueNames ==
  [][/\ (mapFile' # mapFile) => OneNamePerPath(mapFile')
     /\ (run'.mem # run.mem) => OneNamePerPath(run'.mem)
     /\ (run.pc = "init" /\ run'.pc = "init") =>
          \A n \in DOMAIN run'.mem \ DOMAIN run.mem :
            LET workdirPath == config.paths[run.i]
                baseName == filepathBase(workdirPath)
            IN /\ run'.mem[n] = Clean(workdirPath)
               /\ IF baseName \notin DOMAIN run.mem THEN n = baseName
                  ELSE \E k \in 2..(Cardinality(DOMAIN run.mem) + 2) :
                         /\ n = Suffixed(baseName, k)
                         /\ n \notin DOMAIN run.mem
                         /\ \A j \in 2..(k - 1) :
                              Suffixed(baseName, j) \in DOMAIN run.mem]_vars

\* three paths with the last segment "a" are recorded as a, a-2 and a-3, and
\* "../a/" has been found under the name of "../a"
C15_Witness ==
  /\ run.pc = "done" /\ run.err = ""
  /\ DOMAIN mapFile = {<<"a">>, <<"a", "-", "2">>, <<"a", "-", "3">>}
  /\ \E i \in DOMAIN config.paths : config.paths[i] = <<".", ".", "/", "a", "/">>
  /\ mapFile[<<"a">>] = <<".", ".", "/", "a">>

\* ---------------------------------------------------------------- claim C31
\* the configured paths that init-repos has recorded, each under its name
SyncedPaths ==
  {i \in DOMAIN config.paths : FindWorkdirNameClean(config.paths[i], mapFile).exists}

\* C31: each configured workdir has its own persisted mtime checkpoint: when
\* init-repos has succeeded, two configured paths recorded under distinct
\* names in workdir-map.json (for example two directories with the same last
\* segment) never have the same checkpoint file, so that the Phase A tasks of
\* distinct workdirs do not read or write one file.
C31_OwnCheckpointFile ==
  (run.pc \in {"commitAll", "done"} /\ run.err = "") =>
    \A i, j \in SyncedPaths :
      FindWorkdirNameClean(config.paths[i], mapFile).name
          # FindWorkdirNameClean(config.paths[j], mapFile).name
        => getCacheFilePath(config.paths[i]) # getCacheFilePath(config.paths[j])

\* C31 for workdirs with different last segments
C31_DistinctBases ==
  (run.pc \in {"commitAll", "done"} /\ run.err = "") =>
    \A i, j \in SyncedPaths :
      filepathBase(config.paths[i]) # filepathBase(config.paths[j])
        => getCacheFilePath(config.paths[i]) # getCacheFilePath(config.paths[j])

\* ---------------------------------------------------------------- claim C34
\* C34: after any commit invocation, also one that fails during init-repos,
\* every bare store directory repos/<name>.git has an entry <name> in
\* workdir-map.json, and no invocation fails on a bare repository that
\* exists already.
C34_StoresHaveMapEntries ==
  run.pc = "done" =>
    /\ \A n \in repoDirs : n \in DOMAIN mapFile
    /\ run.err # "failed to create bare repo"

\* C34 for invocations in which init-repos succeeds
C34_AfterInitRepos ==
  (run.pc = "done" /\ runPre.repos \subseteq DOMAIN runPre.map
     /\ \A i \in DOMAIN config.paths : validateWorkdirPath(config.paths[i]) = "") =>
    \A n \in repoDirs : n \in DOMAIN mapFile

\* ---------------------------------------------------------------- claim C36
\* Phase A is running: init-repos has succeeded and the signature files exist
PhaseAStarted ==
  /\ run.pc = "commitAll"
  /\ config.author # "missing" /\ config.committer # "missing"

\* C36: a workdir listed more than once in md/commit-workdir-paths, in one
\* spelling or in spellings that clean to one path, is synced once per
\* invocation: no two Phase A tasks work on one bare store.
C36_OneTaskPerStore ==
  PhaseAStarted =>
    \A i, j \in DOMAIN runParallelWorkdirChecks :
      i # j => runParallelWorkdirChecks[i] # runParallelWorkdirChecks[j]

\* C36 for lines that clean to different paths
C36_DistinctPaths ==
  PhaseAStarted =>
    \A i, j \in DOMAIN runParallelWorkdirChecks :
      Clean(config.paths[i]) # Clean(config.paths[j])
        => runParallelWorkdirChecks[i] # runParallelWorkdirChecks[j]

\* ".." after a segment that is not ".."
DotDotAfterName(segs) ==
  \E i, j \in DOMAIN segs : i < j /\ segs[i] # DotDot /\ segs[j] = DotDot

\* the directory is the meta-repository's directory or lies inside it
InMetaRepo(abs) == abs = Cwd \/ HasPrefix(abs, Cwd \o <<"/">>)

\* the cases in which a configured path is to be rejected
Rejectable(path) ==
  \/ IsAbs(path)
  \/ path = <<".">>
  \/ HasPrefix(path, <<".", "/">>)
  \/ ~HasPrefix(path, <<".", ".", "/">>)
  \/ DotDotAfterName(Split(path))
  \/ Stat(Abs(path)) = "missing"
  \/ Stat(Abs(path)) = "file"
  \/ Stat(JoinGit(Abs(path))) = "missing"
  \/ InMetaRepo(Abs(path))

\* C16: initRepos rejects a configured path exactly when it is absolute, is
\* ".", begins with "./", does not begin with "../", has ".." after a
\* segment that is not "..", or its target is missing, is not a directory,
\* has no .git entry or is the meta-repository's directory or inside it;
\* every other path is accepted, and a rejection ends the invocation with
\* an error.
C16_PathValidation ==
  [][(run.pc = "init" /\ run.i <= Len(config.paths)) =>
       LET workdirPath == config.paths[run.i] IN
         /\ (validateWorkdirPath(workdirPath) # "") <=> Rejectable(workdirPath)
         /\ Rejectable(workdirPath) => (run'.pc = "done" /\ run'.err # "")]_vars

\* ---------------------------------------------------------------- claim C17
\* a configuration error: no marker, no configured path, or an author or
\* committer file that is missing or empty
ConfigError ==
  \/ ~config.marker
  \/ config.paths = <<>>
  \/ config.author \in {"missing", "empty"}
  \/ config.committer \in {"missing", "empty"}

\* no configured path is one that path validation rejects
PathsValid ==
  \A i \in DOMAIN config.paths : validateWorkdirPath(config.paths[i]) = ""

\* C17: an invocation that meets a configuration error (and no invalid path)
\* fails before anything is written: it ends with an error, has created no
\* bare store, has left workdir-map.json as it was and has written no commit.
C17_ConfigErrorsWriteNothing ==
  (run.pc = "done" /\ ConfigError /\ PathsValid) =>
    /\ run.err # ""
    /\ repoDirs = runPre.repos
    /\ mapFile = runPre.map
    /\ ~run.wrote

\* ======================================================================
\* The tree builders: createTreeFromFilesystem with .gitignore and nested
\* repositories, and createTreeFromTouchedFiles on top of the tip's tree.
\* ======================================================================

\* ------------------------------------------------------------------ bounds
MaxContent == 1
MaxTouched == 1

\* ------------------------------------------------------------ input domains
TreeContents == 1..MaxContent

\* HEAD commits of the nested repository
NestedHeads == {1, 2}

\* what the user writes into the root .gitignore (no lines: no file): a
\* directory pattern "n/", an exact name "a", a comment "#d"
GitignoreFiles == {{}, {"n/"}, {"#d", "a"}, {"#d", "n/", "a"}}

\* a line without its trailing slash, as path segments, and whether it had one;
\* blank lines and comments are skipped
Pattern(line) ==
  IF line = "n/" THEN [skip |-> FALSE, segs |-> <<"n">>, dirOnly |-> TRUE]
  ELSE IF line = "a" THEN [skip |-> FALSE, segs |-> <<"a">>, dirOnly |-> FALSE]
  ELSE [skip |-> TRUE, segs |-> <<>>, dirOnly |-> FALSE]

\* ---------------------------------------------------------------- the disk
IsPrefixPath(p, q) == Len(p) <= Len(q) /\ SubSeq(q, 1, Len(p)) = p

Parent(p) == SubSeq(p, 1, Len(p) - 1)

GitignorePath == <<".gitignore">>

\* a file's content, 0 when there is no such file; the content of .gitignore
\* is the set of its lines
DiskContent(dk, p) == IF p = GitignorePath THEN dk.gitignore ELSE dk.file[p]

DiskFileExists(dk, p) ==
  IF p = GitignorePath THEN dk.gitignore # {} ELSE dk.file[p] # 0

\* os.ReadDir without ".git"
DiskReadDir(dk, dir) ==
  {[name |-> p[Len(p)], isDir |-> FALSE] : p \in {q \in {GitignorePath} :
                                            dir = <<>> /\ dk.gitignore # {}}}
    \cup
  {[name |-> p[Len(p)], isDir |-> FALSE] : p \in {q \in FileSlots :
                                            Parent(q) = dir /\ dk.file[q] # 0}}
    \cup
  {[name |-> p[Len(p)], isDir |-> TRUE] : p \in {q \in DirSlots :
                                           Parent(q) = dir /\ dk.dir[q].kind # "none"}}
    \cup
  {[name |-> p[Len(p)], isDir |-> FALSE] : p \in {q \in LinkSlots :
                                            Parent(q) = dir /\ dk.link[q] # NoLink}}

\* os.Lstat: what the entry at the path is, the link itself for a symbolic link
Lstat(dk, p) ==
  IF p \in LinkSlots THEN (IF dk.link[p] # NoLink THEN "link" ELSE "none")
  ELSE IF p \in DirSlots THEN (IF dk.dir[p].kind # "none" THEN "dir" ELSE "none")
  ELSE IF p = <<>> THEN "dir"
  ELSE IF p \in FileSlots \cup {GitignorePath}
    THEN (IF DiskFileExists(dk, p) THEN "file" ELSE "none")
  ELSE "none"

\* the path a symbolic link leads to: its target, relative to the link's directory
Resolve(dk, p) == IF Lstat(dk, p) = "link" THEN Parent(p) \o dk.link[p] ELSE p

\* os.Stat: as os.Lstat, but a symbolic link is followed to its target
StatFollow(dk, p) == Lstat(dk, Resolve(dk, p))

\* isBrokenSymlink
isBrokenSymlink(dk, p) == Lstat(dk, p) = "link" /\ StatFollow(dk, p) = "none"

\* os.ReadFile follows a symbolic link and fails on a directory
ReadFile(dk, p) ==
  IF StatFollow(dk, p) = "file"
    THEN [err |-> FALSE, content |-> DiskContent(dk, Resolve(dk, p))]
    ELSE [err |-> TRUE, content |-> 0]

\* Mode()&0111 != 0 of os.Lstat: a symbolic link has the permission bits 0777
LstatExecutable(dk, p) == Lstat(dk, p) = "link" \/ p \in dk.exec

\* Mode()&0111 != 0 of os.Stat: the bits of the file a link leads to
StatExecutable(dk, p) == Resolve(dk, p) \in dk.exec

\* ------------------------------------------------------------------ gitignore
\* never ignoring anything
checkGitignorePatterns_Never(dk, relPath) == FALSE

\* checkGitignorePatterns: a line matches when, without its trailing slash, it
\* equals the relative path, or when it has a trailing slash and the path
\* begins with the line
checkGitignorePatterns(dk, relPath) ==
  \E line \in dk.gitignore :
    LET pat == Pattern(line) IN
      /\ ~pat.skip
      /\ \/ pat.segs = relPath
         \/ pat.dirOnly /\ Len(relPath) > Len(pat.segs) /\ IsPrefixPath(pat.segs, relPath)

\* isPathIgnored: findGitRoot climbs from the directory to the workdir root (a
\* nested repository is never entered), the path is taken relative to it
isPathIgnored(dk, dir, entryName) == checkGitignorePatterns(dk, Append(dir, entryName))

\* ------------------------------------------------------------ the full builder
GitlinkEntry(n, h) == [name |-> n, mode |-> "160000", blob |-> h, sub |-> <<>>]

\* a nested repository that is walked like a plain directory
HasGitDir_Never(dk, entryPath) == FALSE

\* os.Stat(filepath.Join(entryPath, ".git")) succeeds
HasGitDir(dk, entryPath) == dk.dir[entryPath].kind = "repo"

\* the entries of a directory the builder makes tree entries of: not the
\* ignored ones, not the broken symbolic links
WalkedEntries(dk, dir) ==
  {x \in DiskReadDir(dk, dir) :
     /\ ~isPathIgnored(dk, dir, x.name)
     /\ x.isDir \/ ~isBrokenSymlink(dk, Append(dir, x.name))}

\* filemode.Regular, or filemode.Executable when a permission bit of 0111 is set
EntryMode(executable) == IF executable THEN "100755" ELSE "100644"

\* createBlobFromFile stores what os.ReadFile returns
createBlobFromFile(dk, p) == ReadFile(dk, p)

\* createTreeFromFilesystem; the root .gitignore is a file of the workdir
RECURSIVE createTreeFromFilesystemIn(_, _)
createTreeFromFilesystemIn(dk, dir) ==
  TreeEntrySorter(
    { IF e.isDir
        THEN IF HasGitDir(dk, Append(dir, e.name))
               THEN GitlinkEntry(e.name, dk.dir[Append(dir, e.name)].head)
               ELSE DirEntry(e.name, createTreeFromFilesystemIn(dk, Append(dir, e.name)))
        ELSE ModeEntry(e.name,
                       EntryMode(LstatExecutable(dk, Append(dir, e.name))),
                       createBlobFromFile(dk, Append(dir, e.name)).content)
      : e \in WalkedEntries(dk, dir) })

\* createTreeFromFilesystem returns an error: createBlobFromFile has failed
\* for an entry of a directory it walks
RECURSIVE createTreeFromFilesystemFails(_, _)
createTreeFromFilesystemFails(dk, dir) ==
  \E e \in WalkedEntries(dk, dir) :
    IF e.isDir
      THEN /\ ~HasGitDir(dk, Append(dir, e.name))
           /\ createTreeFromFilesystemFails(dk, Append(dir, e.name))
      ELSE createBlobFromFile(dk, Append(dir, e.name)).err

\* ------------------------------------------------------- the touched builder
\* what a diff of two trees of the workdir may name
TouchSlots == FileSlots \cup {GitignorePath} \cup LinkSlots

\* baseEntries after the loop over the touched files: keyed by full path, named
\* by the last segment
\* (os.Stat follows symbolic links: a touched path that is missing or a broken
\* link loses its entry, one that is a directory keeps it, any other gets the
\* content and the permission bits of the file it leads to)
TouchedEntries(dk, touchedFiles, baseTree) ==
  LET base == TreeFiles(baseTree, <<>>)
      kept == {e \in base : e.path \notin touchedFiles \/ StatFollow(dk, e.path) = "dir"}
      upd == {[path |-> p, mode |-> EntryMode(StatExecutable(dk, p)),
               blob |-> ReadFile(dk, p).content]
                : p \in {q \in touchedFiles : StatFollow(dk, q) = "file"}}
  IN kept \cup upd

\* sort.Slice(treeEntries, Name < Name): every order in which no entry comes
\* before one of a smaller name; entries of equal names come in any order
RECURSIVE SortedByName(_)
SortedByName(S) ==
  IF S = {} THEN {<<>>}
  ELSE UNION { {<<ModeEntry(m.path[Len(m.path)], m.mode, m.blob)>> \o rest :
                  rest \in SortedByName(S \ {m})}
               : m \in {x \in S : \A y \in S :
                          ~LexLess(NameBytes[y.path[Len(y.path)]],
                                   NameBytes[x.path[Len(x.path)]])} }

\* createTreeFromTouchedFiles: the trees it may write
createTreeFromTouchedFilesIn(dk, touchedFiles, baseTree) ==
  SortedByName(TouchedEntries(dk, touchedFiles, baseTree))

\* ------------------------------------------------------------ the user's side
TreeUserStep(dk) ==
  /\ dk # workdirFs
  /\ workdirFs' = dk
  /\ written' = NoTree
  /\ UNCHANGED tipTree

\* os.MkdirAll on the way to a path
WithParents(dk, p) ==
  [dk EXCEPT !.dir = [q \in DirSlots |->
     IF IsPrefixPath(q, p) /\ q # p /\ dk.dir[q].kind = "none"
       THEN [kind |-> "dir", head |-> NoCommit] ELSE dk.dir[q]]]

\* a file is written, with the directories above it
TreeWriteFile(p, c) ==
  TreeUserStep([WithParents(workdirFs, p) EXCEPT !.file[p] = c])

\* a file is removed
TreeRemoveFile(p) ==
  /\ workdirFs.file[p] # 0
  /\ TreeUserStep([workdirFs EXCEPT !.file[p] = 0, !.exec = @ \ {p}])

\* rm -r
TreeRemoveDir(d) ==
  /\ workdirFs.dir[d].kind # "none"
  /\ TreeUserStep([workdirFs EXCEPT
       !.dir[d] = [kind |-> "none", head |-> NoCommit],
       !.file = [q \in FileSlots |-> IF IsPrefixPath(d, q) THEN 0 ELSE @[q]],
       !.exec = {q \in @ : ~IsPrefixPath(d, q)}])

\* git init and git commit in a subdirectory, or a further commit there
TreeNestedCommit(d, h) ==
  TreeUserStep([workdirFs EXCEPT !.dir[d] = [kind |-> "repo", head |-> h]])

\* the root .gitignore is written (no lines: removed)
TreeWriteGitignore(lines) ==
  TreeUserStep([workdirFs EXCEPT !.gitignore = lines])

\* chmod +x, chmod -x
TreeChmod(p, executable) ==
  /\ workdirFs.file[p] # 0
  /\ TreeUserStep([workdirFs EXCEPT
       !.exec = IF executable THEN @ \cup {p} ELSE @ \ {p}])

\* ln -sfn <target> l (no target: rm l)
TreeSymlink(l, target) ==
  TreeUserStep([workdirFs EXCEPT !.link[l] = target])

\* ---------------------------------------------------------------- the builders
\* step 6 without a merge commit in the workdir's history: the full tree is
\* written and compared; steps 7 to 9: the snapshot's tree becomes the tip's
FullBuild(snapshot) ==
  LET tree == createTreeFromFilesystemIn(workdirFs, <<>>) IN
    /\ IF createTreeFromFilesystemFails(workdirFs, <<>>)
         THEN written' = [by |-> "failed", tree |-> <<>>] /\ UNCHANGED tipTree
         ELSE /\ written' = [by |-> "full", tree |-> tree]
              /\ tipTree' = IF snapshot THEN tree ELSE tipTree
    /\ UNCHANGED workdirFs

\* step 6 with a merge commit in the workdir's history and a diff that names
\* the touched files
TouchedBuild(touchedFiles) ==
  /\ touchedFiles # {}
  /\ Cardinality(touchedFiles) <= MaxTouched
  /\ \E tree \in createTreeFromTouchedFilesIn(workdirFs, touchedFiles, tipTree) :
       written' = [by |-> "touched", tree |-> tree]
  /\ UNCHANGED <<workdirFs, tipTree>>

TreeInit == Init /\ now = 0

TreeNext ==
  \/ \E p \in FileSlots, c \in TreeContents : TreeWriteFile(p, c) /\ UNCHANGED <<mainVars, cfgVars>>
  \/ \E p \in FileSlots : TreeRemoveFile(p) /\ UNCHANGED <<mainVars, cfgVars>>
  \/ \E d \in DirSlots : TreeRemoveDir(d) /\ UNCHANGED <<mainVars, cfgVars>>
  \/ \E h \in NestedHeads : TreeNestedCommit(<<"n">>, h) /\ UNCHANGED <<mainVars, cfgVars>>
  \/ \E lines \in GitignoreFiles : TreeWriteGitignore(lines) /\ UNCHANGED <<mainVars, cfgVars>>
  \/ \E snapshot \in BOOLEAN : FullBuild(snapshot) /\ UNCHANGED <<mainVars, cfgVars>>
  \/ \E touchedFiles \in SUBSET TouchSlots : TouchedBuild(touchedFiles) /\ UNCHANGED <<mainVars, cfgVars>>

TreeSpec == TreeInit /\ [][TreeNext]_vars

\* ---------------------------------------------------------------- claim C18
\* Git's sort key of a tree entry: the name's bytes, "/" after a directory's
CanonicalKey(e) == NameBytes[e.name] \o (IF e.mode = "40000" THEN <<47>> ELSE <<>>)

\* the entries of the tree and of every tree below it are strictly increasing
RECURSIVE Canonical(_)
Canonical(tree) ==
  /\ \A i, j \in DOMAIN tree :
       i < j => LexLess(CanonicalKey(tree[i]), CanonicalKey(tree[j]))
  /\ \A i \in DOMAIN tree : tree[i].mode = "40000" => Canonical(tree[i].sub)

\* C18: every tree object written into the bare store, by the full builder or
\* by the touched-files builder, has its entries in Git's canonical order,
\* strictly increasing, so that no two entries of a tree share a name.
C18_CanonicalTrees == written.by # "none" => Canonical(written.tree)

\* ---------------------------------------------------------- claims C19, C20
\* every entry of the tree and of the trees below it, with its full path and
\* its place (two entries of one name are two entries)
RECURSIVE AllEntries(_, _, _)
AllEntries(tree, prefix, place) ==
  UNION { {[path |-> Append(prefix, tree[i].name), mode |-> tree[i].mode,
            blob |-> tree[i].blob, place |-> Append(place, i)]}
            \cup AllEntries(tree[i].sub, Append(prefix, tree[i].name), Append(place, i))
          : i \in DOMAIN tree }

WrittenEntries == AllEntries(written.tree, <<>>, <<>>)

\* a line of the root .gitignore matches the path: the line, without its
\* trailing slash, is the path, or the line ends in a slash and the path
\* lies beneath it
LineMatches(line, p) ==
  /\ ~Pattern(line).skip
  /\ \/ Pattern(line).segs = p
     \/ /\ Pattern(line).dirOnly
        /\ IsPrefixPath(Pattern(line).segs, p) /\ Pattern(line).segs # p

\* the path, or a directory above it, is matched by a line of the root .gitignore
Matched(p) ==
  \E line \in workdirFs.gitignore, k \in 1..Len(p) : LineMatches(line, SubSeq(p, 1, k))

\* the path lies beneath a nested repository
BeneathNested(p) ==
  \E d \in DirSlots : workdirFs.dir[d].kind = "repo" /\ IsPrefixPath(d, p) /\ d # p

\* C19: a subdirectory of the workdir that holds a .git entry and is not matched
\* by the root .gitignore has exactly one entry in a snapshot tree, of mode
\* 160000 and with the nested repository's HEAD commit as hash, and the tree
\* has no entry for a path beneath it.
C19_Gitlink ==
  written.by = "full" =>
    \A d \in DirSlots :
      (workdirFs.dir[d].kind = "repo" /\ ~Matched(d)) =>
        /\ Cardinality({e \in WrittenEntries : e.path = d}) = 1
        /\ \A e \in WrittenEntries :
             /\ e.path = d => (e.mode = "160000" /\ e.blob = workdirFs.dir[d].head)
             /\ ~(IsPrefixPath(d, e.path) /\ e.path # d)

\* a snapshot tree of a workdir with a nested repository that holds a file,
\* next to a plain directory and a .gitignore that does not name it
C19_Witness ==
  /\ written.by = "full"
  /\ workdirFs.dir[<<"n">>] = [kind |-> "repo", head |-> 2]
  /\ workdirFs.file[<<"n", "f">>] # 0
  /\ workdirFs.file[<<"d", "a">>] # 0
  /\ workdirFs.gitignore = {"#d", "a"}
  /\ tipTree = written.tree

\* C20: when the root .gitignore holds the line "<name>/", a snapshot tree has
\* no entry whose path begins with "<name>/", and every file of the workdir
\* that no line matches (and that is not inside a nested repository) is in
\* the tree with its content.
C20_Gitignore ==
  written.by = "full" =>
    /\ \A line \in workdirFs.gitignore :
         Pattern(line).dirOnly =>
           \A e \in WrittenEntries :
             ~(IsPrefixPath(Pattern(line).segs, e.path) /\ Pattern(line).segs # e.path)
    /\ \A p \in FileSlots \cup {GitignorePath} :
         (DiskFileExists(workdirFs, p) /\ ~Matched(p) /\ ~BeneathNested(p)) =>
           \E e \in WrittenEntries :
             e.path = p /\ e.mode = "100644" /\ e.blob = DiskContent(workdirFs, p)

\* a snapshot tree of a workdir whose .gitignore names the plain directory n,
\* which holds a file, next to files that no line matches
C20_Witness ==
  /\ written.by = "full"
  /\ workdirFs.gitignore = {"n/"}
  /\ workdirFs.dir[<<"n">>].kind = "dir"
  /\ workdirFs.file[<<"n", "f">>] # 0
  /\ workdirFs.file[<<"a">>] # 0
  /\ workdirFs.file[<<"d", "a">>] # 0
  /\ tipTree = written.tree

\* ---------------------------------------------------------------- claim C27
\* the entries of a tree that are not directories, without their place
LeafEntries(tree) ==
  {[path |-> e.path, mode |-> e.mode, blob |-> e.blob] :
     e \in {x \in AllEntries(tree, <<>>, <<>>) : x.mode # "40000"}}

\* the files on disk differ from the prior tree only along the given paths:
\* off these paths the full rebuild and the prior tree hold the same entries
DiffersOnlyAlong(dk, prior, paths) ==
  {e \in LeafEntries(createTreeFromFilesystemIn(dk, <<>>)) : e.path \notin paths}
    = {e \in LeafEntries(prior) : e.path \notin paths}

\* C27: for a prior root tree and a list of changed paths, in subdirectories
\* too and with files of one base name in different directories, the tree
\* createTreeFromTouchedFiles writes is the tree createTreeFromFilesystem
\* builds from the files on disk, when these differ from the prior tree only
\* along the changed paths.
C27_TouchedEqualsFull ==
  [][\A touchedFiles \in SUBSET TouchSlots :
       (/\ TouchedBuild(touchedFiles)
        /\ DiffersOnlyAlong(workdirFs, tipTree, touchedFiles)
        /\ ~createTreeFromFilesystemFails(workdirFs, <<>>))
         => written'.tree = createTreeFromFilesystemIn(workdirFs, <<>>)]_vars

\* ----------------------------------------------------------------------
\* The tree builders on a workdir with executable files and a symbolic link:
\* files a and d/a, and a link l to the file a, to the directory d or to x,
\* which does not exist.
ModeFiles == {<<"a">>, <<"d", "a">>}

LinkTargets == {NoLink, <<"a">>, <<"d">>, <<"x">>}

ModeNext ==
  \/ \E p \in ModeFiles, c \in TreeContents : TreeWriteFile(p, c) /\ UNCHANGED <<mainVars, cfgVars>>
  \/ \E p \in ModeFiles : TreeRemoveFile(p) /\ UNCHANGED <<mainVars, cfgVars>>
  \/ TreeRemoveDir(<<"d">>) /\ UNCHANGED <<mainVars, cfgVars>>
  \/ \E p \in ModeFiles, executable \in BOOLEAN : TreeChmod(p, executable) /\ UNCHANGED <<mainVars, cfgVars>>
  \/ \E l \in LinkSlots, target \in LinkTargets : TreeSymlink(l, target) /\ UNCHANGED <<mainVars, cfgVars>>
  \/ \E snapshot \in BOOLEAN : FullBuild(snapshot) /\ UNCHANGED <<mainVars, cfgVars>>
  \/ \E touchedFiles \in SUBSET (ModeFiles \cup LinkSlots) : TouchedBuild(touchedFiles) /\ UNCHANGED <<mainVars, cfgVars>>

ModeSpec == TreeInit /\ [][ModeNext]_vars

\* ---------------------------------------------------------------- claim C21
\* the blob of a symbolic link as Git records it: the target string
SymlinkBlob(target) == [target |-> target]

\* C21: in a snapshot tree a regular file has mode 100644, or 100755 when an
\* executable bit is set; a symbolic link to an existing file has mode 120000
\* and a blob whose content is the link's target string, not the content of
\* the file it leads to; a symbolic link whose target does not exist has no
\* entry.
C21_EntryModes ==
  written.by = "full" =>
    /\ \A p \in FileSlots :
         workdirFs.file[p] # 0 =>
           \E e \in WrittenEntries :
             /\ e.path = p
             /\ e.mode = (IF p \in workdirFs.exec THEN "100755" ELSE "100644")
    /\ \A l \in LinkSlots :
         /\ StatFollow(workdirFs, l) = "file" /\ Lstat(workdirFs, l) = "link" =>
              \E e \in WrittenEntries :
                /\ e.path = l
                /\ e.mode = "120000"
                /\ e.blob = SymlinkBlob(workdirFs.link[l])
         /\ isBrokenSymlink(workdirFs, l) =>
              \A e \in WrittenEntries : e.path # l

\* C21, the part the builder keeps: the modes of regular files, and no entry
\* for a symbolic link whose target does not exist
C21_FilesAndBrokenLinks ==
  written.by = "full" =>
    /\ \A p \in FileSlots :
         workdirFs.file[p] # 0 =>
           \E e \in WrittenEntries :
             /\ e.path = p
             /\ e.mode = (IF p \in workdirFs.exec THEN "100755" ELSE "100644")
    /\ \A l \in LinkSlots :
         isBrokenSymlink(workdirFs, l) => \A e \in WrittenEntries : e.path # l

====
